---- MODULE Spec2Model ----
(***************************************************************************)
(* Real-time session and broadcast core of the collaboration board.        *)
(*                                                                         *)
(* The model follows the Socket.IO server whose listing is carried in      *)
(* src/README.md (lines 275-882: handshake token check, membership-gated   *)
(* join-board, element mutation handlers, cursor-move, disconnect) and the *)
(* element / membership calls of the database module                       *)
(* (src/unnamed/part_001).  src/server.js holds an older copy of the same  *)
(* server: its create-element, update-element, delete-element, cursor-move *)
(* and disconnect handlers are line-for-line the same, but it has neither  *)
(* the handshake token check nor the db.checkBoardAccess call.             *)
(*                                                                         *)
(* Every asynchronous handler is split at its awaits: the part before the  *)
(* await is one action, the continuation after the database call settles   *)
(* is another, and continuations of different handlers may run in any      *)
(* order.  A database call either resolves or rejects.                     *)
(***************************************************************************)
EXTENDS Integers, Sequences, FiniteSets, Bags, TLC

\* ---------------------------------------------------------------- bounds
MaxEvents == 2      \* client events the server accepts in one behaviour
MaxInFlight == 2    \* handlers simultaneously waiting on the database

\* ------------------------------------------------------------ value sets
Sockets == {"s1", "s2"}
Boards == {"b1", "b2"}
Users == {"u1", "u2"}
TokenUsers == {"u1"}            \* identities a presented valid token decodes to
Missing == "missing"            \* an absent (undefined) payload field
NoToken == "none"               \* handshake without a token
BadToken == "bad"               \* token that jwt.verify rejects
Colors == {"#e74c3c"}           \* palette entries getRandomColor draws from
Positions == {"{x:5,y:5}"}      \* cursor / element positions
Types == {"note"}               \* element types a client submits
ClientId == 99                  \* an id a client put into its own payload

\* JavaScript values a client puts into the content of an element: an
\* object and the empty string.  Falsy(v) is !v
EmptyObject == "{}"
Contents == {"{text:hi}", "''"}
Falsy(v) == v \in {"''", Missing}
BoardOrder == <<"b1", "b2">>    \* iteration order of the boardUsers keys

\* rows of board_members the store starts with
InitialMembers ==
    {[board_id |-> "b1", user_id |-> "u1", role |-> "owner"],
     [board_id |-> "b2", user_id |-> "u2", role |-> "owner"]}

\* rows of boards the store starts with
InitialBoards ==
    {[id |-> "b1", owner_id |-> "u1"], [id |-> "b2", owner_id |-> "u2"]}

\* rows of users: registered accounts
usersTable ==
    {[id |-> "u1", email |-> "u1@board"], [id |-> "u2", email |-> "u2@board"]}

\* what the canvas of the browser client creates and renders
CanvasTypes == {"sticky", "task", "connector"}

\* boards the users of the browser clients open
ClientBoards == {"b1"}

\* HTTP requests explored in one behaviour
MaxRequests == 2

Requests == 1..MaxRequests

VARIABLES
    status,        \* socket -> "idle" | "connected" | "disconnected"
    handshake,     \* socket -> token it presented and identity decoded from it
    handlers,      \* sockets whose event handlers were registered
    rooms,         \* socket -> Socket.IO rooms the socket is in
    boardUsers,    \* Map boardId -> Map socketId -> {userId, color}
    board_members, \* store: rows of table board_members
    elements,      \* store: rows of table elements
    nextId,        \* ids handed out by uuidv4 so far
    tasks,         \* handlers suspended at an await
    inbox,         \* socket -> messages the server sent to it, in order
    accepted,      \* number of client events accepted so far
    budget,        \* number of client events explored in this behaviour
    joined,        \* history: socket -> boards it was ever admitted to
    elementsMap,   \* client of a socket: CanvasManager.elements, id -> data
    socketBoardId, \* client of a socket: SocketManager.boardId
    handled,       \* client of a socket: messages of its inbox handled so far
    boards,        \* store: rows of table boards
    connectors,    \* store: rows of table connectors
    txn,           \* the connection's open transaction: << >> or <<tables at BEGIN>>
    requests,      \* HTTP request -> route, arguments, position and response
    statements     \* statements handed to the connection and not yet run

vars == <<status, handshake, handlers, rooms, boardUsers, board_members,
          elements, nextId, tasks, inbox, accepted, budget, joined,
          elementsMap, socketBoardId, handled, boards, connectors, txn,
          requests, statements>>

\* state of the Socket.IO server that the HTTP routes do not touch
socketVars == <<status, handshake, handlers, rooms, boardUsers, nextId, tasks,
                inbox, accepted, budget, joined>>

\* state of the browser clients
clientVars == <<elementsMap, socketBoardId, handled>>

\* state of the HTTP routes and of the tables only they write
routeVars == <<boards, connectors, txn, requests, statements>>

EmptyMap == [x \in {} |-> x]

MapSet(m, k, v) == [x \in (DOMAIN m) \cup {k} |-> IF x = k THEN v ELSE m[x]]

MapDel(m, k) == [x \in (DOMAIN m) \ {k} |-> m[x]]

\* a message as it reaches a client: board is the board it was emitted for
\* ("-": none), sid the socket whose event caused it, elem an element id
\* (0: none), users presence entries by socket id, els elements, message
\* the text of an error or of a text-update, position a cursor position
Msg(type, board, sid, elem, users, els) ==
    [type |-> type, board |-> board, sid |-> sid, elem |-> elem,
     users |-> users, els |-> els, message |-> "", position |-> Missing]

\* socket.emit('error', {message})
ErrorMsg(s, message) ==
    [Msg("error", "-", s, 0, EmptyMap, {}) EXCEPT !.message = message]

\* what a client sends as element: an id of its own making (0: none), type,
\* content, position and no style
Payload(id, type, content) ==
    [id |-> id, type |-> type, content |-> content,
     position |-> "{x:5,y:5}", style |-> Missing]

\* an event without element: undefined, written in the shape of a payload
NoElement ==
    [id |-> 0, type |-> Missing, content |-> Missing, position |-> Missing,
     style |-> Missing]

\* a handler suspended at an await: for create-element, element is the
\* payload and elem the id drawn by uuidv4; for update-element and
\* delete-element, elem is the id the payload names
Task(kind, s, boardId, user, elem, element, pc) ==
    [kind |-> kind, sock |-> s, boardId |-> boardId, user |-> user,
     elem |-> elem, element |-> element, pc |-> pc]

\* the suspended handlers form a bag: one socket may have the same event
\* in flight twice
Suspend(ts, t) == ts (+) SetToBag({t})

Resume(ts, t) == ts (-) SetToBag({t})

\* sockets that currently have an entry in boardUsers[b]
Present(bu, b) == IF b \in DOMAIN bu THEN DOMAIN bu[b] ELSE {}

\* io.to(b): every socket in Socket.IO room b
InRoom(rm, b) == {s \in Sockets : b \in rm[s]}

\* deliver msg to every socket of targets; a closed transport drops it
Emit(ib, st, targets, msg) ==
    [s \in Sockets |->
        IF s \in targets /\ st[s] = "connected" THEN Append(ib[s], msg)
        ELSE ib[s]]

\* db.checkBoardAccess: SELECT 1 FROM board_members WHERE board_id, user_id
checkBoardAccess(members, boardId, userId) ==
    \E row \in members : row.board_id = boardId /\ row.user_id = userId

\* a request slot no request has arrived in
Idle ==
    [kind |-> "idle", boardId |-> Missing, userId |-> Missing,
     email |-> Missing, role |-> Missing, invitee |-> Missing,
     pc |-> "idle", completed |-> 0, status |-> 0]

\* JSON.stringify and JSON.parse, on values JSON can represent
JSONstringify(v) == <<"json", v>>

JSONparse(text) == text[2]

\* db.getBoardElements: SELECT * FROM elements WHERE board_id = ?, with the
\* JSON columns parsed
getBoardElements(els, boardId) ==
    {[row EXCEPT !.content = JSONparse(row.content),
                 !.position = JSONparse(row.position),
                 !.style = JSONparse(row.style)] :
        row \in {e \in els : e.board_id = boardId}}

\* the server right after start-up, before any socket connects, on a
\* database file that holds the rows els of table elements
InitFrom(n, els, ids) ==
    /\ budget = n
    /\ status = [s \in Sockets |-> "idle"]
    /\ handshake = [s \in Sockets |-> [token |-> Missing, user |-> Missing]]
    /\ handlers = {}
    /\ rooms = [s \in Sockets |-> {}]
    /\ boardUsers = EmptyMap
    /\ board_members = InitialMembers
    /\ elements = els
    /\ nextId = ids
    /\ tasks = EmptyBag
    /\ inbox = [s \in Sockets |-> <<>>]
    /\ accepted = 0
    /\ joined = [s \in Sockets |-> {}]
    /\ elementsMap = [s \in Sockets |-> EmptyMap]
    /\ socketBoardId = [s \in Sockets |-> Missing]
    /\ handled = [s \in Sockets |-> 0]
    /\ boards = InitialBoards
    /\ connectors = {}
    /\ txn = << >>
    /\ requests = [r \in Requests |-> Idle]
    /\ statements = EmptyBag

InitWith(n) == InitFrom(n, {}, 0)

Init == InitWith(MaxEvents)

\* the same server, explored one client event further
InitLong == InitWith(MaxEvents + 1)

\* jwt.verify(token, JWT_SECRET): the identity the token was signed for;
\* Missing stands for the exception on a token that does not verify
Verify(tok) == IF tok \in TokenUsers THEN tok ELSE Missing

\* a connection handler without the token check, as in the older copy
\* src/server.js: every socket is served
ConnectNoAuth(s, tok) ==
    /\ status[s] = "idle"
    /\ status' = [status EXCEPT ![s] = "connected"]
    /\ handshake' = [handshake EXCEPT ![s] = [token |-> tok, user |-> Verify(tok)]]
    /\ handlers' = handlers \cup {s}
    /\ UNCHANGED <<inbox, rooms, boardUsers, board_members, elements, nextId,
                   tasks, accepted, budget, joined>>

\* io.on('connection'): verify the handshake token, then register handlers
Connect(s, tok) ==
    /\ status[s] = "idle"
    /\ IF tok = NoToken \/ Verify(tok) = Missing
       THEN /\ inbox' = [inbox EXCEPT ![s] = Append(@, ErrorMsg(s,
                            IF tok = NoToken THEN "Authentication required"
                            ELSE "Invalid authentication token"))]
            /\ status' = [status EXCEPT ![s] = "disconnected"]
            /\ handshake' = [handshake EXCEPT ![s].token = tok]
            /\ UNCHANGED handlers
       ELSE /\ status' = [status EXCEPT ![s] = "connected"]
            /\ handshake' = [handshake EXCEPT ![s] =
                                [token |-> tok, user |-> Verify(tok)]]
            /\ handlers' = handlers \cup {s}
            /\ UNCHANGED inbox
    /\ UNCHANGED <<rooms, boardUsers, board_members, elements, nextId, tasks,
                   accepted, budget, joined>>

\* the handlers exist only on sockets that passed the token check, and a
\* closed socket delivers no further client events
CanSend(s) == status[s] = "connected" /\ s \in handlers /\ accepted < budget

AccessDenied == "You do not have access to this board"

\* a join-board whose catch also closes the socket
JoinBoardFatal(s, boardId, user) ==
    /\ CanSend(s)
    /\ accepted' = accepted + 1 /\ UNCHANGED budget
    /\ IF boardId = Missing \/ user = Missing
       THEN /\ inbox' = Emit(inbox, status, {s}, ErrorMsg(s, "Failed to join board"))
            /\ status' = [status EXCEPT ![s] = "disconnected"]
            /\ UNCHANGED tasks
       ELSE /\ BagCardinality(tasks) < MaxInFlight
            /\ tasks' = Suspend(tasks,
                 Task("join", s, boardId, user, 0, NoElement, "access"))
            /\ UNCHANGED <<inbox, status>>
    /\ UNCHANGED <<handshake, handlers, rooms, boardUsers,
                   board_members, elements, nextId, joined>>

\* socket.on('join-board'), up to the await on db.checkBoardAccess
JoinBoard(s, boardId, user) ==
    /\ CanSend(s)
    /\ accepted' = accepted + 1 /\ UNCHANGED budget
    /\ IF boardId = Missing \/ user = Missing
       THEN /\ inbox' = Emit(inbox, status, {s}, ErrorMsg(s, "Failed to join board"))
            /\ UNCHANGED tasks
       ELSE /\ BagCardinality(tasks) < MaxInFlight
            /\ tasks' = Suspend(tasks,
                 Task("join", s, boardId, user, 0, NoElement, "access"))
            /\ UNCHANGED inbox
    /\ UNCHANGED <<status, handshake, handlers, rooms, boardUsers,
                   board_members, elements, nextId, joined>>

\* a join-board that admits the socket whatever db.checkBoardAccess said
\* (src/server.js admits without asking)
JoinBoardAccessUnchecked(t, dbOk, color) ==
    /\ BagIn(t, tasks) /\ t.kind = "join" /\ t.pc = "access"
    /\ LET s == t.sock
           b == t.boardId
       IN IF ~dbOk
          THEN /\ inbox' = Emit(inbox, status, {s},
                               ErrorMsg(s, "Failed to join board"))
               /\ tasks' = Resume(tasks, t)
               /\ UNCHANGED <<rooms, boardUsers, joined>>
          ELSE LET rm == IF status[s] = "connected"
                         THEN [rooms EXCEPT ![s] = @ \cup {b}]
                         ELSE rooms
                   old == IF b \in DOMAIN boardUsers THEN boardUsers[b]
                          ELSE EmptyMap
                   bu == MapSet(boardUsers, b,
                           MapSet(old, s, [userId |-> t.user, color |-> color]))
                   ib1 == Emit(inbox, status, InRoom(rm, b) \ {s},
                               Msg("user-joined", b, s, 0,
                                   MapSet(EmptyMap, s, bu[b][s]), {}))
                   ib2 == Emit(ib1, status, {s},
                               Msg("current-users", b, s, 0, bu[b], {}))
               IN /\ rooms' = rm
                  /\ boardUsers' = bu
                  /\ inbox' = ib2
                  /\ tasks' = Suspend(Resume(tasks, t), [t EXCEPT !.pc = "load"])
                  /\ joined' = [x \in Sockets |-> joined[x] \cup rm[x]]
    /\ UNCHANGED <<status, handshake, handlers, board_members, elements,
                   nextId, accepted, budget>>

\* join-board after db.checkBoardAccess settled, up to the await on
\* db.getBoardElements
JoinBoardAccess(t, dbOk, color) ==
    /\ BagIn(t, tasks) /\ t.kind = "join" /\ t.pc = "access"
    /\ LET s == t.sock
           b == t.boardId
       IN IF ~dbOk \/ ~checkBoardAccess(board_members, b, t.user)
          THEN /\ inbox' = Emit(inbox, status, {s}, ErrorMsg(s,
                               IF dbOk THEN AccessDenied
                               ELSE "Failed to join board"))
               /\ tasks' = Resume(tasks, t)
               /\ UNCHANGED <<rooms, boardUsers, joined>>
          ELSE LET rm == IF status[s] = "connected"
                         THEN [rooms EXCEPT ![s] = @ \cup {b}]
                         ELSE rooms
                   old == IF b \in DOMAIN boardUsers THEN boardUsers[b]
                          ELSE EmptyMap
                   bu == MapSet(boardUsers, b,
                           MapSet(old, s, [userId |-> t.user, color |-> color]))
                   ib1 == Emit(inbox, status, InRoom(rm, b) \ {s},
                               Msg("user-joined", b, s, 0,
                                   MapSet(EmptyMap, s, bu[b][s]), {}))
                   ib2 == Emit(ib1, status, {s},
                               Msg("current-users", b, s, 0, bu[b], {}))
               IN /\ rooms' = rm
                  /\ boardUsers' = bu
                  /\ inbox' = ib2
                  /\ tasks' = Suspend(Resume(tasks, t), [t EXCEPT !.pc = "load"])
                  /\ joined' = [x \in Sockets |-> joined[x] \cup rm[x]]
    /\ UNCHANGED <<status, handshake, handlers, board_members, elements,
                   nextId, accepted, budget>>

\* a join-board that hands the element set to the whole room
JoinBoardLoadToRoom(t, dbOk) ==
    /\ BagIn(t, tasks) /\ t.kind = "join" /\ t.pc = "load"
    /\ inbox' = IF dbOk
                THEN Emit(inbox, status, InRoom(rooms, t.boardId),
                          Msg("load-elements", t.boardId, t.sock, 0, EmptyMap,
                              getBoardElements(elements, t.boardId)))
                ELSE Emit(inbox, status, {t.sock},
                          ErrorMsg(t.sock, "Failed to join board"))
    /\ tasks' = Resume(tasks, t)
    /\ UNCHANGED <<status, handshake, handlers, rooms, boardUsers,
                   board_members, elements, nextId, accepted, budget, joined>>

\* join-board after db.getBoardElements settled
JoinBoardLoad(t, dbOk) ==
    /\ BagIn(t, tasks) /\ t.kind = "join" /\ t.pc = "load"
    /\ inbox' = Emit(inbox, status, {t.sock},
                     IF dbOk
                     THEN Msg("load-elements", t.boardId, t.sock, 0, EmptyMap,
                              getBoardElements(elements, t.boardId))
                     ELSE ErrorMsg(t.sock, "Failed to join board"))
    /\ tasks' = Resume(tasks, t)
    /\ UNCHANGED <<status, handshake, handlers, rooms, boardUsers,
                   board_members, elements, nextId, accepted, budget, joined>>

\* db.createElement: INSERT INTO elements (id, board_id, type, content,
\* position, style), the last three as JSON text of the value or of {}
createElement(els, boardId, element) ==
    els \cup {[id |-> element.id, board_id |-> boardId, type |-> element.type,
               content |-> JSONstringify(IF Falsy(element.content)
                                         THEN EmptyObject ELSE element.content),
               position |-> JSONstringify(IF Falsy(element.position)
                                          THEN EmptyObject ELSE element.position),
               style |-> JSONstringify(IF Falsy(element.style)
                                       THEN EmptyObject ELSE element.style)]}

\* db.updateElement: UPDATE elements SET content = ?, position = ?,
\* style = ? WHERE id = ?
updateElement(els, element) ==
    {IF e.id = element.id
     THEN [e EXCEPT
             !.content = JSONstringify(IF Falsy(element.content)
                                       THEN EmptyObject ELSE element.content),
             !.position = JSONstringify(IF Falsy(element.position)
                                        THEN EmptyObject ELSE element.position),
             !.style = JSONstringify(IF Falsy(element.style)
                                     THEN EmptyObject ELSE element.style)]
     ELSE e : e \in els}

\* a db.deleteElement that resolves without deleting the row
deleteElementKeepsRow(els, id) == els

\* db.deleteElement: DELETE FROM elements WHERE id = ?
deleteElement(els, id) == {e \in els : e.id # id}

\* an elementWithId built as { id: elementId, ...element }: an id in the
\* payload wins over the one the server drew
elementWithClientId(element, elementId) ==
    IF element.id # 0 THEN element ELSE [element EXCEPT !.id = elementId]

\* const elementWithId = { ...element, id: elementId }
elementWithId(element, elementId) == [element EXCEPT !.id = elementId]

\* socket.on('create-element'), up to the await on db.createElement
CreateElement(s, boardId, element) ==
    /\ CanSend(s)
    /\ accepted' = accepted + 1 /\ UNCHANGED budget
    /\ IF boardId = Missing \/ element = NoElement
       THEN /\ inbox' = Emit(inbox, status, {s}, ErrorMsg(s, "Failed to create element"))
            /\ UNCHANGED <<tasks, nextId>>
       ELSE /\ BagCardinality(tasks) < MaxInFlight
            /\ nextId' = nextId + 1
            /\ tasks' = Suspend(tasks,
                 Task("create", s, boardId, Missing, nextId', element,
                      "persist"))
            /\ UNCHANGED inbox
    /\ UNCHANGED <<status, handshake, handlers, rooms, boardUsers,
                   board_members, elements, joined>>

\* socket.on('update-element'), up to the await on db.updateElement
UpdateElement(s, boardId, element) ==
    /\ CanSend(s)
    /\ accepted' = accepted + 1 /\ UNCHANGED budget
    /\ IF boardId = Missing \/ element = NoElement \/ element.id = 0
       THEN /\ inbox' = Emit(inbox, status, {s}, ErrorMsg(s, "Failed to update element"))
            /\ UNCHANGED tasks
       ELSE /\ BagCardinality(tasks) < MaxInFlight
            /\ tasks' = Suspend(tasks,
                 Task("update", s, boardId, Missing, element.id, element,
                      "persist"))
            /\ UNCHANGED inbox
    /\ UNCHANGED <<status, handshake, handlers, rooms, boardUsers,
                   board_members, elements, nextId, joined>>

\* socket.on('delete-element'), up to the await on db.deleteElement
DeleteElement(s, boardId, id) ==
    /\ CanSend(s)
    /\ accepted' = accepted + 1 /\ UNCHANGED budget
    /\ IF boardId = Missing \/ id = 0
       THEN /\ inbox' = Emit(inbox, status, {s}, ErrorMsg(s, "Failed to delete element"))
            /\ UNCHANGED tasks
       ELSE /\ BagCardinality(tasks) < MaxInFlight
            /\ tasks' = Suspend(tasks,
                 Task("delete", s, boardId, Missing, id, NoElement,
                       "persist"))
            /\ UNCHANGED inbox
    /\ UNCHANGED <<status, handshake, handlers, rooms, boardUsers,
                   board_members, elements, nextId, joined>>

\* the store after the database call of mutation t has run
Persisted(els, t) ==
    IF t.kind = "create"
    THEN createElement(els, t.boardId, elementWithId(t.element, t.elem))
    ELSE IF t.kind = "update" THEN updateElement(els, t.element)
    ELSE deleteElement(els, t.elem)

\* what io.to(boardId).emit sends once the database call of t resolved
Broadcast(t) ==
    IF t.kind = "create"
    THEN Msg("element-created", t.boardId, t.sock, t.elem, EmptyMap,
             {elementWithId(t.element, t.elem)})
    ELSE IF t.kind = "update"
    THEN Msg("element-updated", t.boardId, t.sock, t.elem, EmptyMap, {t.element})
    ELSE Msg("element-deleted", t.boardId, t.sock, t.elem, EmptyMap, {})

FailedTo(kind) ==
    IF kind = "create" THEN "Failed to create element"
    ELSE IF kind = "update" THEN "Failed to update element"
    ELSE "Failed to delete element"

\* mutation handlers that broadcast only while the sender is still connected
MutationDoneIfConnected(t, dbOk) ==
    /\ BagIn(t, tasks) /\ t.pc = "persist"
    /\ IF dbOk
       THEN /\ elements' = Persisted(elements, t)
            /\ inbox' = IF status[t.sock] = "connected"
                        THEN Emit(inbox, status, InRoom(rooms, t.boardId),
                                  Broadcast(t))
                        ELSE inbox
       ELSE /\ inbox' = Emit(inbox, status, {t.sock},
                             ErrorMsg(t.sock, FailedTo(t.kind)))
            /\ UNCHANGED elements
    /\ tasks' = Resume(tasks, t)
    /\ UNCHANGED <<status, handshake, handlers, rooms, boardUsers,
                   board_members, nextId, accepted, budget, joined>>

\* mutation handlers that broadcast before they look at the outcome of the
\* database call
MutationDoneBroadcastsFirst(t, dbOk) ==
    /\ BagIn(t, tasks) /\ t.pc = "persist"
    /\ LET sent == Emit(inbox, status, InRoom(rooms, t.boardId), Broadcast(t))
       IN IF dbOk
          THEN /\ elements' = Persisted(elements, t)
               /\ inbox' = sent
          ELSE /\ inbox' = Emit(sent, status, {t.sock},
                                ErrorMsg(t.sock, FailedTo(t.kind)))
               /\ UNCHANGED elements
    /\ tasks' = Resume(tasks, t)
    /\ UNCHANGED <<status, handshake, handlers, rooms, boardUsers,
                   board_members, nextId, accepted, budget, joined>>

\* mutation handlers that broadcast with socket.to: the sender is left out
MutationDoneToOthers(t, dbOk) ==
    /\ BagIn(t, tasks) /\ t.pc = "persist"
    /\ IF dbOk
       THEN /\ elements' = Persisted(elements, t)
            /\ inbox' = Emit(inbox, status, InRoom(rooms, t.boardId) \ {t.sock},
                             Broadcast(t))
       ELSE /\ inbox' = Emit(inbox, status, {t.sock},
                             ErrorMsg(t.sock, FailedTo(t.kind)))
            /\ UNCHANGED elements
    /\ tasks' = Resume(tasks, t)
    /\ UNCHANGED <<status, handshake, handlers, rooms, boardUsers,
                   board_members, nextId, accepted, budget, joined>>

\* create-element / update-element / delete-element after the database
\* call settled: broadcast to the room on success, error to the sender
MutationDone(t, dbOk) ==
    /\ BagIn(t, tasks) /\ t.pc = "persist"
    /\ IF dbOk
       THEN /\ elements' = Persisted(elements, t)
            /\ inbox' = Emit(inbox, status, InRoom(rooms, t.boardId), Broadcast(t))
       ELSE /\ inbox' = Emit(inbox, status, {t.sock},
                             ErrorMsg(t.sock, FailedTo(t.kind)))
            /\ UNCHANGED elements
    /\ tasks' = Resume(tasks, t)
    /\ UNCHANGED <<status, handshake, handlers, rooms, boardUsers,
                   board_members, nextId, accepted, budget, joined>>

\* a cursor-move that broadcasts with io.to: the sender gets its own cursor
CursorMoveEchoes(s, boardId, position) ==
    /\ CanSend(s)
    /\ accepted' = accepted + 1 /\ UNCHANGED budget
    /\ inbox' = IF boardId = Missing \/ position = Missing
                THEN inbox
                ELSE Emit(inbox, status, InRoom(rooms, boardId),
                          [Msg("cursor-update", boardId, s, 0, EmptyMap, {})
                             EXCEPT !.position = position])
    /\ UNCHANGED <<status, handshake, handlers, rooms, boardUsers,
                   board_members, elements, nextId, tasks, joined>>

\* socket.on('cursor-move'): synchronous, no reply on a malformed event
CursorMove(s, boardId, position) ==
    /\ CanSend(s)
    /\ accepted' = accepted + 1 /\ UNCHANGED budget
    /\ inbox' = IF boardId = Missing \/ position = Missing
                THEN inbox
                ELSE Emit(inbox, status, InRoom(rooms, boardId) \ {s},
                          [Msg("cursor-update", boardId, s, 0, EmptyMap, {})
                             EXCEPT !.position = position])
    /\ UNCHANGED <<status, handshake, handlers, rooms, boardUsers,
                   board_members, elements, nextId, tasks, joined>>

\* a disconnect handler that announces the departure but leaves the entry
CleanupBoardKeepsEntry(r, s, rm, st, b) ==
    IF b \in DOMAIN r.bu /\ s \in DOMAIN r.bu[b]
    THEN [bu |-> r.bu,
          ib |-> Emit(r.ib, st, InRoom(rm, b), Msg("user-left", b, s, 0, EmptyMap, {}))]
    ELSE r

\* a leave event from the client: io.on('connection') registers no listener
\* for it, so Socket.IO drops the event
Leave(s) ==
    /\ CanSend(s)
    /\ accepted' = accepted + 1
    /\ UNCHANGED <<status, handshake, handlers, rooms, boardUsers,
                   board_members, elements, nextId, tasks, inbox, budget,
                   joined>>

\* a disconnect handler without the users.size === 0 clean-up
CleanupBoardKeepsEmptyKey(r, s, rm, st, b) ==
    IF b \in DOMAIN r.bu /\ s \in DOMAIN r.bu[b]
    THEN [bu |-> MapSet(r.bu, b, MapDel(r.bu[b], s)),
          ib |-> Emit(r.ib, st, InRoom(rm, b),
                      Msg("user-left", b, s, 0, EmptyMap, {}))]
    ELSE r

\* a disconnect handler that treats presence as one entry per user: it
\* removes every entry of the board that carries the user id of s
CleanupBoardByUser(r, s, rm, st, b) ==
    IF b \in DOMAIN r.bu /\ s \in DOMAIN r.bu[b]
    THEN LET same == {o \in DOMAIN r.bu[b] :
                        r.bu[b][o].userId = r.bu[b][s].userId}
             users == [o \in DOMAIN r.bu[b] \ same |-> r.bu[b][o]]
         IN [bu |-> IF DOMAIN users = {} THEN MapDel(r.bu, b)
                    ELSE MapSet(r.bu, b, users),
             ib |-> Emit(r.ib, st, InRoom(rm, b),
                         Msg("user-left", b, s, 0, EmptyMap, {}))]
    ELSE r

\* a disconnect handler that removes the entry but tells nobody
CleanupBoardSilent(r, s, rm, st, b) ==
    IF b \in DOMAIN r.bu /\ s \in DOMAIN r.bu[b]
    THEN LET users == MapDel(r.bu[b], s)
         IN [bu |-> IF DOMAIN users = {} THEN MapDel(r.bu, b)
                    ELSE MapSet(r.bu, b, users),
             ib |-> r.ib]
    ELSE r

\* one pass of the loop of the disconnect handler, for key b of boardUsers:
\* r.bu is the map and r.ib the inboxes so far; rm and st are the rooms and
\* transports after the socket was closed
CleanupBoard(r, s, rm, st, b) ==
    IF b \in DOMAIN r.bu /\ s \in DOMAIN r.bu[b]
    THEN LET users == MapDel(r.bu[b], s)
         IN [bu |-> IF DOMAIN users = {} THEN MapDel(r.bu, b)
                    ELSE MapSet(r.bu, b, users),
             ib |-> Emit(r.ib, st, InRoom(rm, b),
                         Msg("user-left", b, s, 0, EmptyMap, {}))]
    ELSE r

\* the disconnect handler of socket s: the loop over the keys of
\* boardUsers, from position i of BoardOrder on
RECURSIVE Cleanup(_, _, _, _, _)
Cleanup(r, s, rm, st, i) ==
    IF i > Len(BoardOrder) THEN r
    ELSE Cleanup(CleanupBoard(r, s, rm, st, BoardOrder[i]), s, rm, st, i + 1)

\* the transport of s closes: Socket.IO takes the socket out of its rooms
\* and then fires 'disconnect'
Disconnect(s) ==
    /\ status[s] = "connected"
    /\ status' = [status EXCEPT ![s] = "disconnected"]
    /\ rooms' = [rooms EXCEPT ![s] = {}]
    /\ LET r == IF s \in handlers
                THEN Cleanup([bu |-> boardUsers, ib |-> inbox], s, rooms',
                             status', 1)
                ELSE [bu |-> boardUsers, ib |-> inbox]
       IN /\ boardUsers' = r.bu
          /\ inbox' = r.ib
    /\ UNCHANGED <<handshake, handlers, board_members, elements, nextId,
                   tasks, accepted, budget, joined>>

\* ids a client can name in update-element and delete-element: 0 stands
\* for none; the id of a create-element still waiting on the database has
\* not left the server
SendableIds ==
    (0..nextId) \ {t.elem : t \in {u \in BagToSet(tasks) : u.kind = "create"}}

Next ==
    \/ \E s \in Sockets, tok \in TokenUsers \cup {NoToken, BadToken} :
          Connect(s, tok) /\ UNCHANGED <<clientVars, routeVars>>
    \/ \E s \in Sockets, b \in Boards \cup {Missing}, u \in Users \cup {Missing} :
          JoinBoard(s, b, u) /\ UNCHANGED <<clientVars, routeVars>>
    \/ \E t \in BagToSet(tasks), dbOk \in BOOLEAN, color \in Colors :
          JoinBoardAccess(t, dbOk, color) /\ UNCHANGED <<clientVars, routeVars>>
    \/ \E t \in BagToSet(tasks), dbOk \in BOOLEAN :
          JoinBoardLoad(t, dbOk) /\ UNCHANGED <<clientVars, routeVars>>
    \/ \E s \in Sockets, b \in Boards \cup {Missing},
          e \in {NoElement} \cup {Payload(ClientId, type, c) :
                    type \in Types, c \in Contents} :
          CreateElement(s, b, e) /\ UNCHANGED <<clientVars, routeVars>>
    \/ \E s \in Sockets, b \in Boards \cup {Missing},
          e \in {NoElement} \cup {Payload(id, type, c) :
                    id \in SendableIds, type \in Types, c \in Contents} :
          UpdateElement(s, b, e) /\ UNCHANGED <<clientVars, routeVars>>
    \/ \E s \in Sockets, b \in Boards \cup {Missing}, id \in SendableIds :
          DeleteElement(s, b, id) /\ UNCHANGED <<clientVars, routeVars>>
    \/ \E t \in BagToSet(tasks), dbOk \in BOOLEAN :
          MutationDone(t, dbOk) /\ UNCHANGED <<clientVars, routeVars>>
    \/ \E s \in Sockets, b \in Boards \cup {Missing}, p \in Positions \cup {Missing} :
          CursorMove(s, b, p) /\ UNCHANGED <<clientVars, routeVars>>
    \/ \E s \in Sockets : Leave(s) /\ UNCHANGED <<clientVars, routeVars>>
    \/ \E s \in Sockets : Disconnect(s) /\ UNCHANGED <<clientVars, routeVars>>

Spec == Init /\ [][Next]_vars

SpecLong == InitLong /\ [][Next]_vars

\* ------------------------------------------------ text and mouse streams

\* texts a client sends in text-change: a word, the empty string and none
\* at all (undefined)
Texts == {"hi", "''", Missing}

\* a text-change that broadcasts to every other connected socket, whatever
\* its room
TextChangeToEveryone(s, boardId, elementId, text) ==
    /\ CanSend(s)
    /\ accepted' = accepted + 1 /\ UNCHANGED budget
    /\ inbox' = IF boardId = Missing \/ elementId = 0 \/ text = Missing
                THEN Emit(inbox, status, {s},
                          ErrorMsg(s, "Failed to process text change"))
                ELSE Emit(inbox, status, Sockets \ {s},
                          [Msg("text-update", boardId, s, elementId, EmptyMap, {})
                             EXCEPT !.message = text])
    /\ UNCHANGED <<status, handshake, handlers, rooms, boardUsers,
                   board_members, elements, nextId, tasks, joined>>

\* socket.on('text-change'): synchronous; text may be empty but not
\* undefined; socket.handshake.session.userId is never set, so the userId
\* of the payload is undefined and left out
TextChange(s, boardId, elementId, text) ==
    /\ CanSend(s)
    /\ accepted' = accepted + 1 /\ UNCHANGED budget
    /\ inbox' = IF boardId = Missing \/ elementId = 0 \/ text = Missing
                THEN Emit(inbox, status, {s},
                          ErrorMsg(s, "Failed to process text change"))
                ELSE Emit(inbox, status, InRoom(rooms, boardId) \ {s},
                          [Msg("text-update", boardId, s, elementId, EmptyMap, {})
                             EXCEPT !.message = text])
    /\ UNCHANGED <<status, handshake, handlers, rooms, boardUsers,
                   board_members, elements, nextId, tasks, joined>>

\* a mouse-move that broadcasts with io.to: the sender gets its own mouse
MouseMoveEchoes(s, boardId, position) ==
    /\ CanSend(s)
    /\ accepted' = accepted + 1 /\ UNCHANGED budget
    /\ inbox' = IF boardId = Missing \/ position = Missing
                THEN inbox
                ELSE Emit(inbox, status, InRoom(rooms, boardId),
                          [Msg("user-mouse-move", boardId, s, 0, EmptyMap, {})
                             EXCEPT !.position = position])
    /\ UNCHANGED <<status, handshake, handlers, rooms, boardUsers,
                   board_members, elements, nextId, tasks, joined>>

\* socket.on('mouse-move'): synchronous, no reply on a malformed event
MouseMove(s, boardId, position) ==
    /\ CanSend(s)
    /\ accepted' = accepted + 1 /\ UNCHANGED budget
    /\ inbox' = IF boardId = Missing \/ position = Missing
                THEN inbox
                ELSE Emit(inbox, status, InRoom(rooms, boardId) \ {s},
                          [Msg("user-mouse-move", boardId, s, 0, EmptyMap, {})
                             EXCEPT !.position = position])
    /\ UNCHANGED <<status, handshake, handlers, rooms, boardUsers,
                   board_members, elements, nextId, tasks, joined>>

\* the server with the text and mouse streams of its clients
NextStream ==
    \/ Next
    \/ \E s \in Sockets, b \in Boards \cup {Missing}, id \in {0, ClientId},
          text \in Texts :
          TextChange(s, b, id, text) /\ UNCHANGED <<clientVars, routeVars>>
    \/ \E s \in Sockets, b \in Boards \cup {Missing}, p \in Positions \cup {Missing} :
          MouseMove(s, b, p) /\ UNCHANGED <<clientVars, routeVars>>

SpecStream == InitLong /\ [][NextStream]_vars

\* ------------------------------------------------------- browser client

\* the id CanvasManager.createElement gives a new element:
\* 'element_' + Date.now() + '_' + random, unlike any uuid of the server
localId == ClientId + nextId

\* CanvasManager.serializeElement: what goes on the wire for an element
\* whose data is d
serializeElement(d) == Payload(d.id, d.type, d.content)

\* CanvasManager.handleRemoteElementCreated on the Map m
handleRemoteElementCreated(m, elementData) ==
    IF elementData.id \in DOMAIN m THEN m
    ELSE IF elementData.type \in CanvasTypes
    THEN MapSet(m, elementData.id,
                [id |-> elementData.id, type |-> elementData.type,
                 content |-> elementData.content])
    ELSE m

\* CanvasManager.handleRemoteElementUpdated: only a task card takes the
\* content into its data
handleRemoteElementUpdated(m, elementData) ==
    IF elementData.id \in DOMAIN m /\ elementData.type = "task"
    THEN [m EXCEPT ![elementData.id].content = elementData.content]
    ELSE m

\* CanvasManager.handleRemoteElementDeleted
handleRemoteElementDeleted(m, elementId) ==
    IF elementId \in DOMAIN m THEN MapDel(m, elementId) ELSE m

\* CanvasManager.loadElements: handleRemoteElementCreated for each element
loadElements(m, els) ==
    LET known == {e \in els : e.type \in CanvasTypes}
        ids == DOMAIN m \cup {e.id : e \in known}
    IN [k \in ids |->
          IF k \in DOMAIN m THEN m[k]
          ELSE LET e == CHOOSE x \in known : x.id = k
               IN [id |-> e.id, type |-> e.type, content |-> e.content]]

\* SocketManager.joinBoard(boardId), called when the user opens a board
SocketManagerJoinBoard(s, boardId) ==
    /\ socketBoardId' = [socketBoardId EXCEPT ![s] = boardId]
    /\ JoinBoard(s, boardId, handshake[s].user)
    /\ UNCHANGED <<elementsMap, handled, routeVars>>

\* CanvasManager.createElement(type, position): the element gets a local
\* id, is emitted as create-element and kept in the Map under the local id
CanvasCreateElement(s, type, content) ==
    /\ socketBoardId[s] # Missing
    /\ LET data == [id |-> localId, type |-> type, content |-> content]
       IN /\ CreateElement(s, socketBoardId[s], serializeElement(data))
          /\ elementsMap' = [elementsMap EXCEPT ![s] = MapSet(@, localId, data)]
    /\ UNCHANGED <<socketBoardId, handled, routeVars>>

\* CanvasManager.handleObjectModified: the user moved or edited the element
\* kept under key k; emitElementUpdate sends it under its data.id
CanvasObjectModified(s, k) ==
    /\ socketBoardId[s] # Missing /\ k \in DOMAIN elementsMap[s]
    /\ UpdateElement(s, socketBoardId[s], serializeElement(elementsMap[s][k]))
    /\ UNCHANGED <<clientVars, routeVars>>

\* CanvasManager.deleteElement(element) of the element kept under key k
CanvasDeleteElement(s, k) ==
    /\ socketBoardId[s] # Missing /\ k \in DOMAIN elementsMap[s]
    /\ elementsMap' = [elementsMap EXCEPT ![s] = MapDel(@, elementsMap[s][k].id)]
    /\ DeleteElement(s, socketBoardId[s], elementsMap[s][k].id)
    /\ UNCHANGED <<socketBoardId, handled, routeVars>>

\* the client of socket s handles the next message of its inbox: the
\* listeners CanvasManager registers with the SocketManager
ClientReceive(s) ==
    /\ handled[s] < Len(inbox[s])
    /\ handled' = [handled EXCEPT ![s] = @ + 1]
    /\ LET m == inbox[s][handled[s] + 1]
           old == elementsMap[s]
       IN elementsMap' = [elementsMap EXCEPT ![s] =
             IF m.type = "element-created"
             THEN handleRemoteElementCreated(old, CHOOSE e \in m.els : TRUE)
             ELSE IF m.type = "element-updated"
             THEN handleRemoteElementUpdated(old, CHOOSE e \in m.els : TRUE)
             ELSE IF m.type = "element-deleted"
             THEN handleRemoteElementDeleted(old, m.elem)
             ELSE IF m.type = "load-elements"
             THEN loadElements(old, m.els)
             ELSE old]
    /\ UNCHANGED <<socketVars, board_members, elements, socketBoardId,
                   routeVars>>

\* the server with browser clients of this repository on its sockets
NextClient ==
    \/ \E s \in Sockets, tok \in TokenUsers :
          Connect(s, tok) /\ UNCHANGED <<clientVars, routeVars>>
    \/ \E s \in Sockets, b \in ClientBoards : SocketManagerJoinBoard(s, b)
    \/ \E t \in BagToSet(tasks), dbOk \in BOOLEAN, color \in Colors :
          JoinBoardAccess(t, dbOk, color) /\ UNCHANGED <<clientVars, routeVars>>
    \/ \E t \in BagToSet(tasks), dbOk \in BOOLEAN :
          JoinBoardLoad(t, dbOk) /\ UNCHANGED <<clientVars, routeVars>>
    \/ \E s \in Sockets : CanvasCreateElement(s, "sticky", "{text:hi}")
    \/ \E s \in Sockets, k \in 1..(ClientId + nextId) : CanvasObjectModified(s, k)
    \/ \E s \in Sockets, k \in 1..(ClientId + nextId) : CanvasDeleteElement(s, k)
    \/ \E t \in BagToSet(tasks), dbOk \in BOOLEAN :
          MutationDone(t, dbOk) /\ UNCHANGED <<clientVars, routeVars>>
    \/ \E s \in Sockets : ClientReceive(s)

SpecClient == InitLong /\ [][NextClient]_vars

\* ------------------------------------------------- HTTP routes and store

\* uuid.v4() as drawn by db.createBoard for request r
uuidv4(r) == <<"n1", "n2", "n3", "n4">>[r]

\* e-mail addresses a caller may name in an invitation
Emails == {"u2@board", "ghost@board"}

\* the tables as the shared connection sees them
Tables ==
    [boards |-> boards, board_members |-> board_members,
     elements |-> elements, connectors |-> connectors]

\* the tables that are committed: an open transaction hides what was
\* written since its BEGIN
Committed == IF txn = << >> THEN Tables ELSE txn[1]

\* db.run / db.get hand a statement to the connection; the connection runs
\* the statements it holds in no fixed order (the default, parallel mode)
Statement(r, sql) == [req |-> r, sql |-> sql]

Pending(r, sql) == BagIn(Statement(r, sql), statements)

\* statement st has run and its callback issued the statements sqls
Then(st, sqls) ==
    (statements (-) SetToBag({st})) (+) SetToBag({Statement(st.req, q) : q \in sqls})

\* the request gets its response: res.status(code).json(...); a promise
\* that is settled stays as it is
Respond(r, code) ==
    IF requests[r].status # 0 THEN requests
    ELSE [requests EXCEPT ![r].status = code]

Arrive(r, kind, boardId, userId, email, role, pc) ==
    [requests EXCEPT ![r] =
        [kind |-> kind, boardId |-> boardId, userId |-> userId,
         email |-> email, role |-> role, invitee |-> Missing,
         pc |-> pc, completed |-> 0, status |-> 0]]

\* db.getBoard: the row or null
getBoard(T, boardId) == {row \in T.boards : row.id = boardId}

\* db.getBoardMember: the row or null
getBoardMember(T, boardId, userId) ==
    {row \in T.board_members : row.board_id = boardId /\ row.user_id = userId}

\* db.getUserByEmail: the row or null
getUserByEmail(email) == {row \in usersTable : row.email = email}

\* BEGIN TRANSACTION succeeds on a connection that has none open
Begin(dbOk) == dbOk /\ txn = << >>

\* app.post('/api/boards'), up to the first statement of db.createBoard
PostBoards(r, name, userId) ==
    /\ requests[r] = Idle
    /\ IF name = Missing
       THEN /\ requests' = Respond(r, 400)
            /\ UNCHANGED statements
       ELSE /\ requests' = Arrive(r, "createBoard", uuidv4(r), userId, Missing,
                                  Missing, "tx")
            /\ statements' = statements (+) SetToBag({Statement(r, "BEGIN")})
    /\ UNCHANGED <<boards, board_members, elements, connectors, txn,
                   socketVars, clientVars>>

\* db.createBoard: the callback of BEGIN TRANSACTION
createBoardBegin(r, dbOk) ==
    /\ requests[r].kind = "createBoard" /\ Pending(r, "BEGIN")
    /\ IF Begin(dbOk)
       THEN /\ txn' = <<Tables>>
            /\ statements' = Then(Statement(r, "BEGIN"), {"INSERT boards"})
            /\ UNCHANGED requests
       ELSE /\ statements' = Then(Statement(r, "BEGIN"), {})
            /\ requests' = Respond(r, 500)
            /\ UNCHANGED txn
    /\ UNCHANGED <<boards, board_members, elements, connectors,
                   socketVars, clientVars>>

\* db.createBoard: the callback of INSERT INTO boards
createBoardInsertBoard(r, dbOk) ==
    /\ requests[r].kind = "createBoard" /\ Pending(r, "INSERT boards")
    /\ IF dbOk
       THEN /\ boards' = boards \cup {[id |-> requests[r].boardId,
                                       owner_id |-> requests[r].userId]}
            /\ statements' = Then(Statement(r, "INSERT boards"),
                                  {"INSERT board_members"})
            /\ UNCHANGED requests
       ELSE /\ statements' = Then(Statement(r, "INSERT boards"), {"ROLLBACK"})
            /\ requests' = Respond(r, 500)
            /\ UNCHANGED boards
    /\ UNCHANGED <<board_members, elements, connectors, txn,
                   socketVars, clientVars>>

\* db.createBoard: the callback of INSERT INTO board_members; COMMIT is
\* handed to the connection without a callback and the promise resolves
createBoardInsertMember(r, dbOk) ==
    /\ requests[r].kind = "createBoard" /\ Pending(r, "INSERT board_members")
    /\ IF dbOk
       THEN /\ board_members' = board_members \cup
                  {[board_id |-> requests[r].boardId,
                    user_id |-> requests[r].userId, role |-> "owner"]}
            /\ statements' = Then(Statement(r, "INSERT board_members"),
                                  {"COMMIT"})
            /\ requests' = Respond(r, 200)
       ELSE /\ statements' = Then(Statement(r, "INSERT board_members"),
                                  {"ROLLBACK"})
            /\ requests' = Respond(r, 500)
            /\ UNCHANGED board_members
    /\ UNCHANGED <<boards, elements, connectors, txn, socketVars, clientVars>>

\* the connection runs a COMMIT; only db.deleteBoard gave it a callback
RunCommit(r, dbOk) ==
    /\ Pending(r, "COMMIT")
    /\ statements' = Then(Statement(r, "COMMIT"), {})
    /\ txn' = IF dbOk THEN << >> ELSE txn
    /\ requests' = IF requests[r].kind = "deleteBoard"
                   THEN Respond(r, IF dbOk /\ txn # << >> THEN 200 ELSE 500)
                   ELSE requests
    /\ UNCHANGED <<boards, board_members, elements, connectors,
                   socketVars, clientVars>>

\* the connection runs a ROLLBACK; nobody gave it a callback
RunRollback(r, dbOk) ==
    /\ Pending(r, "ROLLBACK")
    /\ statements' = Then(Statement(r, "ROLLBACK"), {})
    /\ IF dbOk /\ txn # << >>
       THEN /\ boards' = txn[1].boards
            /\ board_members' = txn[1].board_members
            /\ elements' = txn[1].elements
            /\ connectors' = txn[1].connectors
            /\ txn' = << >>
       ELSE UNCHANGED <<boards, board_members, elements, connectors, txn>>
    /\ UNCHANGED <<requests, socketVars, clientVars>>

\* app.delete('/api/boards/:boardId'), up to the await on db.getBoardMember
DeleteBoards(r, boardId, userId) ==
    /\ requests[r] = Idle
    /\ requests' = Arrive(r, "deleteBoard", boardId, userId, Missing, Missing,
                          "member")
    /\ statements' = statements (+) SetToBag({Statement(r, "SELECT member")})
    /\ UNCHANGED <<boards, board_members, elements, connectors, txn,
                   socketVars, clientVars>>

\* the delete route once db.getBoardMember settled: 403 unless the caller's
\* row has role 'owner', else db.deleteBoard starts
DeleteBoardsMember(r, dbOk) ==
    /\ requests[r].kind = "deleteBoard" /\ Pending(r, "SELECT member")
    /\ LET member == getBoardMember(Tables, requests[r].boardId,
                                    requests[r].userId)
       IN IF ~dbOk
          THEN /\ requests' = Respond(r, 500)
               /\ statements' = Then(Statement(r, "SELECT member"), {})
          ELSE IF member = {} \/ \A row \in member : row.role # "owner"
          THEN /\ requests' = Respond(r, 403)
               /\ statements' = Then(Statement(r, "SELECT member"), {})
          ELSE /\ requests' = [requests EXCEPT ![r].pc = "tx"]
               /\ statements' = Then(Statement(r, "SELECT member"), {"BEGIN"})
    /\ UNCHANGED <<boards, board_members, elements, connectors, txn,
                   socketVars, clientVars>>

\* the four statements of db.deleteBoard, issued together by queries.forEach
queries ==
    {"DELETE connectors", "DELETE elements", "DELETE board_members",
     "DELETE boards"}

\* db.deleteBoard: the callback of BEGIN TRANSACTION
deleteBoardBegin(r, dbOk) ==
    /\ requests[r].kind = "deleteBoard" /\ Pending(r, "BEGIN")
    /\ IF Begin(dbOk)
       THEN /\ txn' = <<Tables>>
            /\ statements' = Then(Statement(r, "BEGIN"), queries)
            /\ UNCHANGED requests
       ELSE /\ statements' = Then(Statement(r, "BEGIN"), {})
            /\ requests' = Respond(r, 500)
            /\ UNCHANGED txn
    /\ UNCHANGED <<boards, board_members, elements, connectors,
                   socketVars, clientVars>>

\* the tables after statement sql of db.deleteBoard(boardId) has run
Deleted(T, sql, boardId) ==
    [boards |-> IF sql = "DELETE boards"
                THEN {row \in T.boards : row.id # boardId} ELSE T.boards,
     board_members |-> IF sql = "DELETE board_members"
                       THEN {row \in T.board_members : row.board_id # boardId}
                       ELSE T.board_members,
     elements |-> IF sql = "DELETE elements"
                  THEN {row \in T.elements : row.board_id # boardId}
                  ELSE T.elements,
     connectors |-> IF sql = "DELETE connectors"
                    THEN {row \in T.connectors : row.board_id # boardId}
                    ELSE T.connectors]

\* db.deleteBoard: the callback of one of the four DELETE statements
deleteBoardQuery(r, sql, dbOk) ==
    /\ requests[r].kind = "deleteBoard" /\ sql \in queries /\ Pending(r, sql)
    /\ IF dbOk
       THEN LET T == Deleted(Tables, sql, requests[r].boardId)
                completed == requests[r].completed + 1
            IN /\ boards' = T.boards
               /\ board_members' = T.board_members
               /\ elements' = T.elements
               /\ connectors' = T.connectors
               /\ requests' = [requests EXCEPT ![r].completed = completed]
               /\ statements' = Then(Statement(r, sql),
                                     IF completed = Cardinality(queries)
                                     THEN {"COMMIT"} ELSE {})
       ELSE /\ statements' = Then(Statement(r, sql), {"ROLLBACK"})
            /\ requests' = Respond(r, 500)
            /\ UNCHANGED <<boards, board_members, elements, connectors>>
    /\ UNCHANGED <<txn, socketVars, clientVars>>

\* app.post('/api/boards/:boardId/invite'), up to the await on db.getBoard
PostInvite(r, boardId, userId, email, role) ==
    /\ requests[r] = Idle
    /\ IF email = Missing
       THEN /\ requests' = Respond(r, 400)
            /\ UNCHANGED statements
       ELSE /\ requests' = Arrive(r, "invite", boardId, userId, email,
                                  IF role = Missing THEN "editor" ELSE role,
                                  "getBoard")
            /\ statements' = statements (+) SetToBag({Statement(r, "SELECT board")})
    /\ UNCHANGED <<boards, board_members, elements, connectors, txn,
                   socketVars, clientVars>>

\* the statement the invite route awaits at position pc
InviteAwaits(pc) ==
    IF pc = "getBoard" THEN "SELECT board"
    ELSE IF pc = "getInviter" THEN "SELECT inviter"
    ELSE IF pc = "getUser" THEN "SELECT user"
    ELSE IF pc = "getExisting" THEN "SELECT existing"
    ELSE "INSERT member"

\* the invite route at one of its four reads: db.getBoard (404),
\* db.getBoardMember of the caller (403), db.getUserByEmail (404),
\* db.getBoardMember of the invitee (400); a rejected read gives 500
PostInviteRead(r, dbOk) ==
    /\ requests[r].kind = "invite" /\ requests[r].pc # "insert"
    /\ Pending(r, InviteAwaits(requests[r].pc))
    /\ LET q == requests[r]
           st == Statement(r, InviteAwaits(q.pc))
           inviter == getBoardMember(Tables, q.boardId, q.userId)
           invitee == getUserByEmail(q.email)
           Stop(code) == /\ requests' = Respond(r, code)
                         /\ statements' = Then(st, {})
           Go(pc) == /\ requests' = [requests EXCEPT ![r].pc = pc]
                     /\ statements' = Then(st, {InviteAwaits(pc)})
       IN IF ~dbOk THEN Stop(500)
          ELSE IF q.pc = "getBoard"
          THEN IF getBoard(Tables, q.boardId) = {} THEN Stop(404)
               ELSE Go("getInviter")
          ELSE IF q.pc = "getInviter"
          THEN IF inviter = {} \/ \A row \in inviter :
                                    row.role \notin {"owner", "admin"}
               THEN Stop(403) ELSE Go("getUser")
          ELSE IF q.pc = "getUser"
          THEN IF invitee = {} THEN Stop(404)
               ELSE /\ requests' = [requests EXCEPT
                          ![r].pc = "getExisting",
                          ![r].invitee = (CHOOSE row \in invitee : TRUE).id]
                    /\ statements' = Then(st, {InviteAwaits("getExisting")})
          ELSE IF getBoardMember(Tables, q.boardId, q.invitee) # {}
               THEN Stop(400)
               ELSE Go("insert")
    /\ UNCHANGED <<boards, board_members, elements, connectors, txn,
                   socketVars, clientVars>>

\* a table board_members without its primary key
addBoardMemberNoKey(members, boardId, userId, role) ==
    members \cup {[board_id |-> boardId, user_id |-> userId, role |-> role]}

\* db.addBoardMember: INSERT INTO board_members; PRIMARY KEY (board_id,
\* user_id) makes the statement fail, and leave the table as it is, when
\* the pair has a row
addBoardMember(members, boardId, userId, role) ==
    IF \E row \in members : row.board_id = boardId /\ row.user_id = userId
    THEN members
    ELSE members \cup {[board_id |-> boardId, user_id |-> userId, role |-> role]}

\* the invite route once db.addBoardMember settled
PostInviteAdd(r, dbOk) ==
    /\ requests[r].kind = "invite" /\ requests[r].pc = "insert"
    /\ Pending(r, "INSERT member")
    /\ statements' = Then(Statement(r, "INSERT member"), {})
    /\ LET q == requests[r]
           added == addBoardMember(board_members, q.boardId, q.invitee, q.role)
       IN IF dbOk /\ added # board_members
          THEN board_members' = added /\ requests' = Respond(r, 200)
          ELSE UNCHANGED board_members /\ requests' = Respond(r, 500)
    /\ UNCHANGED <<boards, elements, connectors, txn, socketVars, clientVars>>

\* a server whose database file has one element on board b1
InitStore ==
    InitFrom(0, createElement({}, "b1",
                   elementWithId(Payload(ClientId, "note", "{text:hi}"), 1)), 1)

NextStore ==
    \/ \E r \in Requests, name \in {"name", Missing}, u \in {"u1"} :
          PostBoards(r, name, u)
    \/ \E r \in Requests, dbOk \in BOOLEAN : createBoardBegin(r, dbOk)
    \/ \E r \in Requests, dbOk \in BOOLEAN : createBoardInsertBoard(r, dbOk)
    \/ \E r \in Requests, dbOk \in BOOLEAN : createBoardInsertMember(r, dbOk)
    \/ \E r \in Requests, dbOk \in BOOLEAN : RunCommit(r, dbOk)
    \/ \E r \in Requests, dbOk \in BOOLEAN : RunRollback(r, dbOk)
    \/ \E r \in Requests, u \in Users : DeleteBoards(r, "b1", u)
    \/ \E r \in Requests, dbOk \in BOOLEAN : DeleteBoardsMember(r, dbOk)
    \/ \E r \in Requests, dbOk \in BOOLEAN : deleteBoardBegin(r, dbOk)
    \/ \E r \in Requests, sql \in queries, dbOk \in BOOLEAN :
          deleteBoardQuery(r, sql, dbOk)
    \/ \E r \in Requests, u \in Users, email \in Emails \cup {Missing},
          role \in {Missing, "admin"} :
          PostInvite(r, "b1", u, email, role)
    \/ \E r \in Requests, dbOk \in BOOLEAN : PostInviteRead(r, dbOk)
    \/ \E r \in Requests, dbOk \in BOOLEAN : PostInviteAdd(r, dbOk)

SpecStore == InitStore /\ [][NextStore]_vars

\* one delete request is explored next to the sockets
RevokeRequests == {1}

\* the Socket.IO server next to the delete route: boards are deleted while
\* sockets join them and mutate their elements
NextRevoke ==
    \/ \E s \in Sockets, tok \in TokenUsers :
          Connect(s, tok) /\ UNCHANGED <<clientVars, routeVars>>
    \/ \E s \in Sockets, b \in ClientBoards, u \in TokenUsers :
          JoinBoard(s, b, u) /\ UNCHANGED <<clientVars, routeVars>>
    \/ \E t \in BagToSet(tasks), dbOk \in BOOLEAN, color \in Colors :
          JoinBoardAccess(t, dbOk, color) /\ UNCHANGED <<clientVars, routeVars>>
    \/ \E t \in BagToSet(tasks), dbOk \in BOOLEAN :
          JoinBoardLoad(t, dbOk) /\ UNCHANGED <<clientVars, routeVars>>
    \/ \E s \in Sockets, b \in ClientBoards :
          CreateElement(s, b, Payload(ClientId, "note", "{text:hi}"))
          /\ UNCHANGED <<clientVars, routeVars>>
    \/ \E t \in BagToSet(tasks), dbOk \in BOOLEAN :
          MutationDone(t, dbOk) /\ UNCHANGED <<clientVars, routeVars>>
    \/ \E s \in Sockets : Disconnect(s) /\ UNCHANGED <<clientVars, routeVars>>
    \/ \E r \in RevokeRequests, b \in ClientBoards, u \in TokenUsers :
          DeleteBoards(r, b, u)
    \/ \E r \in RevokeRequests, dbOk \in BOOLEAN : DeleteBoardsMember(r, dbOk)
    \/ \E r \in RevokeRequests, dbOk \in BOOLEAN : deleteBoardBegin(r, dbOk)
    \/ \E r \in RevokeRequests, sql \in queries, dbOk \in BOOLEAN :
          deleteBoardQuery(r, sql, dbOk)
    \/ \E r \in RevokeRequests, dbOk \in BOOLEAN : RunCommit(r, dbOk)
    \/ \E r \in RevokeRequests, dbOk \in BOOLEAN : RunRollback(r, dbOk)

SpecRevoke == Init /\ [][NextRevoke]_vars

\* ------------------------------------------------------------ properties

\* boards in which socket s has a presence entry
PresenceOf(bu, s) == {b \in Boards : s \in Present(bu, b)}

\* suspended handlers of socket s
TasksOf(s) == {t \in BagToSet(tasks) : t.sock = s}

\* indices of the messages of inbox ib[s] that satisfy P
Received(ib, s, P(_)) == {i \in 1..Len(ib[s]) : P(ib[s][i])}

\* C1: a create-element, update-element or delete-element naming board B
\* from a connection that never joined B is rejected before any side
\* effect; in particular no persistence call is ever pending for a
\* (connection, board) pair that was never admitted.
C1_MutationRequiresJoin ==
    \A t \in BagToSet(tasks) :
        t.pc = "persist" => t.boardId \in joined[t.sock]

\* the step in which the db.checkBoardAccess call of join handler t settles
AccessSettles(t) ==
    /\ t.kind = "join" /\ t.pc = "access"
    /\ CopiesIn(t, tasks') < CopiesIn(t, tasks)

C3_NoPresenceAfterDisconnect ==
    \A s \in Sockets :
        (status[s] = "disconnected" /\ TasksOf(s) = {})
        => PresenceOf(boardUsers, s) = {}

\* C4: a presence entry for socket c exists in boardUsers[B] exactly when c
\* is in the Socket.IO room B.
C4_PresenceIffInRoom ==
    \A s \in Sockets, b \in Boards :
        s \in Present(boardUsers, b) <=> b \in rooms[s]

MutationTypes == {"element-created", "element-updated", "element-deleted"}

\* C5: a connection receives its join snapshot of board B (load-elements)
\* before any element-created, element-updated or element-deleted of B.
C5_SnapshotBeforeBroadcasts ==
    \A s \in Sockets : \A i \in 1..Len(inbox[s]) :
        inbox[s][i].type \in MutationTypes
        => \E j \in 1..(i - 1) :
              /\ inbox[s][j].type = "load-elements"
              /\ inbox[s][j].board = inbox[s][i].board

\* C6: broadcasts of one board reach every member in the order in which
\* the server accepted their events.  Element ids are drawn when
\* create-element is accepted, so among element-created messages of one
\* board the acceptance order is the order of their ids.
C6_BroadcastsInAcceptanceOrder ==
    \A s \in Sockets : \A i, j \in 1..Len(inbox[s]) :
        ( /\ i < j
          /\ inbox[s][i].type = "element-created"
          /\ inbox[s][j].type = "element-created"
          /\ inbox[s][i].board = inbox[s][j].board )
        => inbox[s][i].elem < inbox[s][j].elem

\* C7: a connection has presence in at most one room at any time.
C7_AtMostOneRoom ==
    \A s \in Sockets : Cardinality(PresenceOf(boardUsers, s)) <= 1

\* messages in any inbox that were caused by an event of socket s
CausedBy(s) ==
    {m \in UNION {{inbox[o][i] : i \in 1..Len(inbox[o])} : o \in Sockets} :
        m.sid = s}

LeftSeen(ib, m, b, s) ==
    Received(ib, m, LAMBDA x : x.type = "user-left" /\ x.board = b /\ x.sid = s)

\* the step in which the transport of s closes
Closes(s) == status[s] = "connected" /\ status'[s] = "disconnected"

\* C9: when a connection with presence in room B disconnects, every
\* remaining (connected) member of B receives exactly one user-left with
\* its socket id for B, its entry is gone from boardUsers[B], and the key B
\* is removed when that was the last entry.
C9_DisconnectNotifiesRoom ==
    [][\A s \in Sockets, b \in Boards :
         (Closes(s) /\ s \in Present(boardUsers, b))
         => /\ s \notin Present(boardUsers', b)
            /\ Present(boardUsers', b) = Present(boardUsers, b) \ {s}
            /\ (Present(boardUsers, b) = {s} => b \notin DOMAIN boardUsers')
            /\ \A m \in Present(boardUsers, b) \ {s} :
                  status[m] = "connected"
                  => /\ Cardinality(LeftSeen(inbox', m, b, s)) = 1
                     /\ LeftSeen(inbox, m, b, s) = {}
      ]_vars

\* a member has been told that another member left, and a room emptied by
\* a disconnect is gone
C9_Witness ==
    \E s, m \in Sockets, b \in Boards :
        /\ status[s] = "disconnected"
        /\ status[m] = "connected"
        /\ LeftSeen(inbox, m, b, s) # {}
        /\ m \in Present(boardUsers, b)

\* C10: running the disconnect cleanup a second time for the same socket
\* changes nothing: it removes no entry and emits no user-left.
C10_CleanupIdempotent ==
    [][\A s \in Sockets :
         Closes(s)
         => Cleanup([bu |-> boardUsers', ib |-> inbox'], s, rooms', status', 1)
              = [bu |-> boardUsers', ib |-> inbox']
      ]_vars

\* the cleanup of a socket had an entry to remove and a member to notify
C10_Witness ==
    \E s, m \in Sockets, b \in Boards :
        /\ status[s] = "disconnected"
        /\ LeftSeen(inbox, m, b, s) # {}
        /\ s \notin Present(boardUsers, b)

\* the last message socket s has received
Last(ib, s) == ib[s][Len(ib[s])]

\* socket s receives exactly one message in this step
GetsOne(s) == Len(inbox'[s]) = Len(inbox[s]) + 1 /\ SubSeq(inbox'[s], 1, Len(inbox[s])) = inbox[s]

\* the step in which join handler t is admitted: its db.checkBoardAccess
\* settled and it went on to the await on db.getBoardElements
Admits(t) ==
    /\ AccessSettles(t)
    /\ CopiesIn([t EXCEPT !.pc = "load"], tasks')
          > CopiesIn([t EXCEPT !.pc = "load"], tasks)

\* the step in which the db.getBoardElements call of join handler t settles
LoadSettles(t) ==
    /\ t.kind = "join" /\ t.pc = "load"
    /\ CopiesIn(t, tasks') < CopiesIn(t, tasks)

\* C11: on a successful join of board B by connection c, c and only c gets
\* the presence snapshot, equal to the full presence map of B with c's new
\* entry in it, and the stored element set of B; every other member of B
\* gets exactly one user-joined with c's socket id, identity and color; c
\* gets no user-joined about itself.
C11_JoinSendsSnapshotAndNotice ==
    [][\A t \in BagToSet(tasks) :
         LET c == t.sock
             b == t.boardId
         IN /\ Admits(t) =>
                 /\ c \in Present(boardUsers', b)
                 /\ boardUsers'[b][c].userId = t.user
                 /\ status[c] = "connected" =>
                       /\ GetsOne(c)
                       /\ Last(inbox', c).type = "current-users"
                       /\ Last(inbox', c).users = boardUsers'[b]
                 /\ \A o \in Sockets \ {c} :
                       IF status[o] = "connected" /\ o \in Present(boardUsers, b)
                       THEN /\ GetsOne(o)
                            /\ Last(inbox', o).type = "user-joined"
                            /\ Last(inbox', o).sid = c
                            /\ Last(inbox', o).users
                                  = MapSet(EmptyMap, c, boardUsers'[b][c])
                       ELSE inbox'[o] = inbox[o]
            /\ LoadSettles(t) =>
                 /\ \A o \in Sockets \ {c} : inbox'[o] = inbox[o]
                 /\ status[c] = "connected" =>
                       /\ GetsOne(c)
                       /\ \/ Last(inbox', c).type = "error"
                          \/ /\ Last(inbox', c).type = "load-elements"
                             /\ Last(inbox', c).els
                                   = getBoardElements(elements, b)
      ]_vars

\* a connection joined a board that already had a member: it holds the
\* snapshot of both entries and the element set, the member holds the
\* user-joined
C11_Witness ==
    \E c, o \in Sockets, b \in Boards :
        /\ c # o
        /\ \E i, j \in 1..Len(inbox[c]) :
              /\ i < j
              /\ inbox[c][i].type = "current-users"
              /\ DOMAIN inbox[c][i].users = {c, o}
              /\ inbox[c][j].type = "load-elements"
              /\ inbox[c][j].board = b
        /\ \E k \in 1..Len(inbox[o]) :
              /\ inbox[o][k].type = "user-joined"
              /\ inbox[o][k].sid = c
              /\ inbox[o][k].board = b

\* the step in which the database call of mutation handler t settles
PersistSettles(t) ==
    /\ t.pc = "persist"
    /\ CopiesIn(t, tasks') < CopiesIn(t, tasks)

\* the step in which db.createElement of handler t resolves: the store
\* has a row more
CreateResolves(t) ==
    /\ PersistSettles(t) /\ t.kind = "create"
    /\ elements' # elements

\* C12: when create-element is sent for a board and persistence succeeds,
\* every connection in the room, the sender included, receives exactly one
\* element-created; all carry the same id and the submitted type and
\* content, and nobody outside the room receives anything.
C12_CreateReachesWholeRoom ==
    [][/\ \A s \in Sockets, b \in Boards, id \in {ClientId},
             type \in Types, c \in Contents :
             CreateElement(s, b, Payload(id, type, c))
             => \E t \in BagToSet(tasks') :
                   /\ CopiesIn(t, tasks') > CopiesIn(t, tasks)
                   /\ t.kind = "create" /\ t.sock = s /\ t.boardId = b
                   /\ t.elem = nextId'
                   /\ t.element = Payload(id, type, c)
       /\ \A t \in BagToSet(tasks) :
             CreateResolves(t)
             => \A o \in Sockets :
                   IF status[o] = "connected" /\ t.boardId \in rooms[o]
                   THEN /\ GetsOne(o)
                        /\ Last(inbox', o).type = "element-created"
                        /\ Last(inbox', o).elem = t.elem
                        /\ \E e \in Last(inbox', o).els :
                              /\ Last(inbox', o).els = {e}
                              /\ e.id = t.elem
                              /\ e.type = t.element.type
                              /\ e.content = t.element.content
                   ELSE inbox'[o] = inbox[o]
      ]_vars

\* two members of a room, one of them the sender, hold the element-created
\* of the same element
C12_Witness ==
    \E s, o \in Sockets, b \in Boards :
        /\ s # o
        /\ b \in rooms[s] /\ b \in rooms[o]
        /\ \E i \in 1..Len(inbox[s]), j \in 1..Len(inbox[o]) :
              /\ inbox[s][i].type = "element-created"
              /\ inbox[s][i].sid = s
              /\ inbox[s][i].board = b
              /\ inbox[o][j] = inbox[s][i]

\* ids of the rows of the store
StoredIds == {row.id : row \in elements}

\* create handlers waiting on db.createElement
PendingCreates == {t \in BagToSet(tasks) : t.kind = "create"}

\* C13: the id of a created element is the server's: it replaces an id in
\* the client's payload, the id persisted is the id broadcast, and no two
\* create-element events get the same id.
C13_ServerAssignsId ==
    [][/\ \A t \in PendingCreates :
             /\ CopiesIn(t, tasks) = 1
             /\ t.elem \notin StoredIds
             /\ \A u \in PendingCreates : u.elem = t.elem => u = t
       /\ \A t \in BagToSet(tasks) :
             CreateResolves(t)
             => /\ elements' \ elements
                    = {row \in elements' : row.id = t.elem}
                /\ Cardinality(elements' \ elements) = 1
                /\ t.element.id # t.elem
                /\ \A o \in Sockets :
                      inbox'[o] # inbox[o]
                      => /\ Last(inbox', o).elem = t.elem
                         /\ \A e \in Last(inbox', o).els : e.id = t.elem
      ]_vars

\* a create-element whose payload carries a client id waits with a server
\* id, while an earlier element is stored under another server id and was
\* broadcast under it
C13_Witness ==
    \E t \in PendingCreates, row \in elements, o \in Sockets :
        /\ t.element.id = ClientId
        /\ t.elem # row.id
        /\ row.id # ClientId
        /\ \E i \in 1..Len(inbox[o]) :
              /\ inbox[o][i].type = "element-created"
              /\ inbox[o][i].elem = row.id

\* sockets that receive something in this step
Receivers == {o \in Sockets : inbox'[o] # inbox[o]}

\* C14: when the database call of a mutation rejects, nothing is broadcast
\* for it, only the sender gets an error, and store and presence stay as
\* they are; a mutation broadcast is only ever emitted in the step in which
\* the database call of its event resolves.
C14_BroadcastOnlyAfterPersist ==
    [][/\ \A t \in BagToSet(tasks) :
             PersistSettles(t)
             => /\ boardUsers' = boardUsers /\ rooms' = rooms
                /\ \/ /\ elements' = Persisted(elements, t)
                      /\ \A o \in Receivers :
                            GetsOne(o) /\ Last(inbox', o) = Broadcast(t)
                   \/ /\ elements' = elements
                      /\ Receivers \subseteq {t.sock}
                      /\ \A o \in Receivers :
                            /\ GetsOne(o)
                            /\ Last(inbox', o) = ErrorMsg(o, FailedTo(t.kind))
       /\ \A o \in Receivers :
             Last(inbox', o).type \in MutationTypes
             => \E t \in BagToSet(tasks) :
                   /\ PersistSettles(t)
                   /\ elements' = Persisted(elements, t)
                   /\ Last(inbox', o) = Broadcast(t)
      ]_vars

\* a member of a room was told that its create-element failed: nothing was
\* stored, nothing was broadcast, and it still has its presence entry
C14_Witness ==
    \E s \in Sockets, b \in Boards :
        /\ status[s] = "connected"
        /\ b \in rooms[s] /\ s \in Present(boardUsers, b)
        /\ Last(inbox, s) = ErrorMsg(s, FailedTo("create"))
        /\ elements = {}
        /\ \A o \in Sockets : \A i \in 1..Len(inbox[o]) :
              inbox[o][i].type \notin MutationTypes

\* what the claim expects of an event the server refuses: an error to the
\* sender, nothing to anybody else, no database call
Refused(s) ==
    /\ GetsOne(s) /\ Last(inbox', s).type = "error"
    /\ \A o \in Sockets \ {s} : inbox'[o] = inbox[o]
    /\ tasks' = tasks /\ elements' = elements

\* element payloads of the mutation events, the absent one included
Payloads ==
    {NoElement} \cup {Payload(id, type, c) :
        id \in (0..nextId) \cup {ClientId}, type \in Types, c \in Contents}

\* C15: a create-element, update-element, delete-element or cursor-move
\* that lacks a required field produces an error to the sender only, no
\* broadcast and no persistence call.
C15_MalformedEventIsRefused ==
    [][\A s \in Sockets, b \in Boards \cup {Missing} :
         /\ \A e \in Payloads :
               (CreateElement(s, b, e) /\ (b = Missing \/ e = NoElement))
               => Refused(s)
         /\ \A e \in Payloads :
               ( /\ UpdateElement(s, b, e)
                 /\ (b = Missing \/ e = NoElement \/ e.id = 0) )
               => Refused(s)
         /\ \A id \in 0..nextId :
               (DeleteElement(s, b, id) /\ (b = Missing \/ id = 0))
               => Refused(s)
         /\ \A p \in Positions \cup {Missing} :
               (CursorMove(s, b, p) /\ (b = Missing \/ p = Missing))
               => Refused(s)
      ]_vars

\* C16: a cursor-move from a connection A joined to room B delivers
\* cursor-update {socketId: A, position} to every other connection in B and
\* nothing to A; it makes no persistence call and changes no presence
\* entry.
C16_CursorGoesToOthersOnly ==
    [][\A s \in Sockets, b \in Boards, p \in Positions :
         (CursorMove(s, b, p) /\ b \in rooms[s])
         => /\ inbox'[s] = inbox[s]
            /\ \A o \in Sockets \ {s} :
                  IF status[o] = "connected" /\ b \in rooms[o]
                  THEN /\ GetsOne(o)
                       /\ Last(inbox', o).type = "cursor-update"
                       /\ Last(inbox', o).sid = s
                       /\ Last(inbox', o).position = p
                  ELSE inbox'[o] = inbox[o]
            /\ tasks' = tasks /\ elements' = elements
            /\ boardUsers' = boardUsers
      ]_vars

\* a member of a room holds the cursor of another member, who holds no
\* cursor-update itself
C16_Witness ==
    \E s, o \in Sockets, b \in Boards :
        /\ s # o
        /\ b \in rooms[s] /\ b \in rooms[o]
        /\ \E i \in 1..Len(inbox[o]) :
              /\ inbox[o][i].type = "cursor-update"
              /\ inbox[o][i].sid = s
              /\ inbox[o][i].position \in Positions
        /\ \A i \in 1..Len(inbox[s]) : inbox[s][i].type # "cursor-update"

\* C17: an element created through create-element with content C on board
\* B and not deleted afterwards is in the element set of every later fresh
\* join of B, with content equal to C and the id that was broadcast: the
\* set a join would load right after the create holds it so, and a row
\* stays as it is until an update-element or delete-element names its id.
C17_CreatedElementRoundTrips ==
    [][/\ \A t \in BagToSet(tasks) :
             CreateResolves(t)
             => \E e \in getBoardElements(elements', t.boardId) :
                   /\ e.id = Broadcast(t).elem
                   /\ e.content = t.element.content
       /\ \A row \in elements :
             row \notin elements'
             => \E t \in BagToSet(tasks) :
                   /\ PersistSettles(t)
                   /\ t.kind \in {"update", "delete"}
                   /\ t.elem = row.id
      ]_vars

\* C18: boardUsers has no key whose presence map is empty.
C18_NoEmptyRoom ==
    \A b \in DOMAIN boardUsers : DOMAIN boardUsers[b] # {}

\* the only member of a room disconnected and the key of the room is gone,
\* while another room is still there
C18_Witness ==
    \E s \in Sockets, b \in Boards :
        /\ status[s] = "disconnected"
        /\ b \in joined[s]
        /\ b \notin DOMAIN boardUsers
        /\ DOMAIN boardUsers # {}

\* C19: a joined connection that sends leave has its presence entry
\* removed and stays connected, and the remaining members of the room get
\* a departure notification.
C19_LeaveRemovesPresence ==
    [][\A s \in Sockets, b \in Boards :
         (Leave(s) /\ s \in Present(boardUsers, b))
         => /\ s \notin Present(boardUsers', b)
            /\ status'[s] = "connected"
            /\ \A m \in Present(boardUsers, b) \ {s} :
                  status[m] = "connected"
                  => Cardinality(LeftSeen(inbox', m, b, s))
                       = Cardinality(LeftSeen(inbox, m, b, s)) + 1
      ]_vars

\* C20: no error of an event handler disconnects a connection or removes a
\* presence entry, and the handlers stay registered: a served connection
\* closes only when its transport closes, the server itself closes a
\* connection only when it refuses the handshake, and an entry goes only
\* with the disconnect of its connection.
C20_ErrorsAreNotFatal ==
    [][/\ \A s \in Sockets :
             /\ (status[s] = "connected" /\ status'[s] # "connected")
                   => Disconnect(s)
             /\ (status[s] = "idle" /\ status'[s] = "disconnected")
                   => handshake'[s].token \in {NoToken, BadToken}
             /\ \A b \in Boards :
                   (s \in Present(boardUsers, b) /\ s \notin Present(boardUsers', b))
                   => Disconnect(s)
       /\ handlers \subseteq handlers'
       /\ \A o \in Receivers :
             (Last(inbox', o).type = "error" /\ status[o] = "connected")
             => /\ status' = status
                /\ rooms' = rooms
                /\ boardUsers' = boardUsers
      ]_vars

\* a member of a room got an error for an event of its own after it had
\* joined, kept its entry, and afterwards saw another connection join
C20_Witness ==
    \E s, o \in Sockets, b \in Boards :
        /\ s # o
        /\ status[s] = "connected" /\ status[o] = "connected"
        /\ s \in Present(boardUsers, b) /\ o \in Present(boardUsers, b)
        /\ \E i, j, k \in 1..Len(inbox[s]) :
              /\ i < j /\ j < k
              /\ inbox[s][i].type = "current-users"
              /\ inbox[s][j].type = "error"
              /\ inbox[s][k].type = "user-joined"
              /\ inbox[s][k].sid = o

\* C21: when the sender of a create-element, update-element or
\* delete-element has disconnected while the event waited on persistence
\* and persistence then resolves, the broadcast still reaches every
\* remaining member of the room and the effect is in the store.
C21_BroadcastSurvivesSender ==
    [][\A t \in BagToSet(tasks) :
         (PersistSettles(t) /\ status[t.sock] = "disconnected")
         => \/ elements' = elements /\ Receivers = {}
            \/ /\ elements' = Persisted(elements, t)
               /\ \A o \in Sockets :
                     (status[o] = "connected" /\ t.boardId \in rooms[o])
                     => GetsOne(o) /\ Last(inbox', o) = Broadcast(t)
               /\ t.kind = "create" =>
                     \E row \in elements' :
                        row.id = t.elem /\ row.board_id = t.boardId
      ]_vars

\* a member was told that another member left and afterwards received the
\* element-created of that member's create-element, whose row is stored
C21_Witness ==
    \E s, o \in Sockets, b \in Boards :
        /\ s # o
        /\ status[s] = "disconnected" /\ status[o] = "connected"
        /\ \E i, j \in 1..Len(inbox[o]) :
              /\ i < j
              /\ inbox[o][i].type = "user-left" /\ inbox[o][i].sid = s
              /\ inbox[o][i].board = b
              /\ inbox[o][j].type = "element-created" /\ inbox[o][j].sid = s
              /\ inbox[o][j].board = b
              /\ inbox[o][j].elem \in StoredIds

\* the messages socket m receives in this step
Fresh(m) == {inbox'[m][i] : i \in (Len(inbox[m]) + 1)..Len(inbox'[m])}

\* C22: presence is keyed by socket id, not by identity: admitting a
\* connection to board B leaves the entries of the other connections of B
\* as they are, also those of the same user; disconnecting a connection
\* removes no entry but its own and emits user-left for no socket id but
\* its own.
C22_PresencePerConnection ==
    [][/\ \A t \in BagToSet(tasks) :
            Admits(t) =>
               /\ t.sock \in Present(boardUsers', t.boardId)
               /\ \A o \in Present(boardUsers, t.boardId) \ {t.sock} :
                     /\ o \in Present(boardUsers', t.boardId)
                     /\ boardUsers'[t.boardId][o] = boardUsers[t.boardId][o]
       /\ \A s \in Sockets :
            Closes(s) =>
               /\ \A b \in Boards : \A o \in Present(boardUsers, b) \ {s} :
                     /\ o \in Present(boardUsers', b)
                     /\ boardUsers'[b][o] = boardUsers[b][o]
               /\ \A m \in Sockets : \A x \in Fresh(m) :
                     x.type = "user-left" /\ x.sid = s
      ]_vars

\* two connections of one identity were both present in a board under the
\* same user id; one of them has disconnected, the other one was told so
\* and still has its entry
C22_Witness ==
    \E s, o \in Sockets, b \in Boards :
        /\ s # o /\ handshake[s] = handshake[o]
        /\ status[s] = "disconnected" /\ status[o] = "connected"
        /\ o \in Present(boardUsers, b) /\ s \notin Present(boardUsers, b)
        /\ LeftSeen(inbox, o, b, s) # {}
        /\ \E i \in 1..Len(inbox[o]) :
              /\ s \in DOMAIN inbox[o][i].users
              /\ inbox[o][i].users[s].userId = boardUsers[b][o].userId

\* number of handlers for board b that are suspended at an await
HandlersFor(ts, b) ==
    BagCardinality([t \in {u \in BagToSet(ts) : u.boardId = b} |-> ts[t]])

\* C23: events of one board are handled one at a time, to completion:
\* while a handler for board B is suspended at an await, no other handler
\* for B is started, and a step that leaves the suspended handlers alone
\* delivers nothing for B and leaves the presence of B as it is (no cursor
\* relay, no disconnect clean-up for B).
C23_OneEventPerRoom ==
    [][\A b \in Boards :
         HandlersFor(tasks, b) >= 1 =>
            /\ HandlersFor(tasks', b) <= HandlersFor(tasks, b)
            /\ tasks' = tasks =>
                  /\ Present(boardUsers', b) = Present(boardUsers, b)
                  /\ \A m \in Sockets : \A x \in Fresh(m) : x.board # b
      ]_vars

\* socket s is sent the error of a join-board in this step
JoinErrorTo(s) ==
    \E x \in Fresh(s) : x.type = "error" /\ x.message = "Failed to join board"

\* C24: a join-board that ends with an error to the joiner leaves no
\* trace.  For missing data and for a membership check that is negative
\* or rejects, presence is unchanged in the step that sends the error and
\* no user-joined is sent.  For a rejected db.getBoardElements the case is
\* taken in which the joiner received current-users of the board once, so
\* that this join is its only admission there: the joiner has no entry in
\* the board afterwards and nobody holds a user-joined for it.
C24_FailedJoinLeavesPresence ==
    [][/\ \A s \in Sockets :
            (tasks' = tasks /\ accepted' # accepted /\ JoinErrorTo(s))
            => boardUsers' = boardUsers
       /\ \A t \in BagToSet(tasks) :
            (AccessSettles(t) /\ ~Admits(t))
            => /\ boardUsers' = boardUsers
               /\ \A m \in Sockets : \A x \in Fresh(m) : x.type = "error"
       /\ \A t \in BagToSet(tasks) :
            ( /\ LoadSettles(t) /\ JoinErrorTo(t.sock)
              /\ Cardinality(Received(inbox, t.sock,
                     LAMBDA x : x.type = "current-users"
                                /\ x.board = t.boardId)) = 1 )
            => /\ t.sock \notin Present(boardUsers', t.boardId)
               /\ \A o \in Sockets \ {t.sock} :
                     Received(inbox', o,
                        LAMBDA x : /\ x.type = "user-joined"
                                   /\ x.board = t.boardId
                                   /\ x.sid = t.sock) = {}
      ]_vars

\* the step in which db.updateElement of handler t resolves for a sender
\* that is still connected: the handler is gone and its sender got no error
UpdateResolves(t) ==
    /\ PersistSettles(t) /\ t.kind = "update"
    /\ status[t.sock] = "connected"
    /\ \A x \in Fresh(t.sock) : x.type # "error"

\* C25: an update-element is applied whoever sends it: when its
\* db.updateElement resolves, every connection of the room, the sender
\* included, receives one element-updated with the element as sent, and
\* the row of that id, read back from the store, has the content of this
\* update (the update that ran last wins).
C25_LastUpdateWins ==
    [][\A t \in BagToSet(tasks) :
         UpdateResolves(t) =>
            /\ \A o \in InRoom(rooms, t.boardId) :
                  status[o] = "connected" =>
                     /\ GetsOne(o)
                     /\ Last(inbox', o) =
                           Msg("element-updated", t.boardId, t.sock,
                               t.element.id, EmptyMap, {t.element})
            /\ \A b \in Boards : \A row \in getBoardElements(elements', b) :
                  row.id = t.element.id => row.content = t.element.content
      ]_vars

\* the step in which db.deleteElement of handler t resolves for a sender
\* that is still connected: the handler is gone and its sender got no error
DeleteResolves(t) ==
    /\ PersistSettles(t) /\ t.kind = "delete"
    /\ status[t.sock] = "connected"
    /\ \A x \in Fresh(t.sock) : x.type # "error"

\* C26: when db.deleteElement resolves, every connection of the room, the
\* sender included, receives one element-deleted with exactly the id of
\* the event, and no row of that id is left in the store, from which every
\* later join reads its element set.  The id does not come back: rows
\* enter the store only under the id of a create-element that was still
\* waiting on the database, which no delete-element could name, and an id
\* that a client could name once can be named ever after.
C26_DeleteReachesRoomAndStore ==
    [][/\ \A t \in BagToSet(tasks) :
            DeleteResolves(t) =>
               /\ \A o \in InRoom(rooms, t.boardId) :
                     status[o] = "connected" =>
                        /\ GetsOne(o)
                        /\ Last(inbox', o) =
                              Msg("element-deleted", t.boardId, t.sock, t.elem,
                                  EmptyMap, {})
               /\ \A b \in Boards : \A row \in getBoardElements(elements', b) :
                     row.id # t.elem
       /\ \A row \in elements' :
            row.id \notin StoredIds => row.id \notin SendableIds
       /\ SendableIds \subseteq SendableIds'
      ]_vars

\* a member of a room has seen an element appear and has then received the
\* element-deleted of its own delete-element for it; the row is gone
C26_Witness ==
    \E s \in Sockets, b \in Boards :
        /\ b \in rooms[s]
        /\ \E i, j \in 1..Len(inbox[s]) :
              /\ i < j
              /\ inbox[s][i].type = "element-created"
              /\ inbox[s][j].type = "element-deleted"
              /\ inbox[s][j].sid = s /\ inbox[s][j].board = b
              /\ inbox[s][j].elem = inbox[s][i].elem
              /\ inbox[s][j].elem \notin StoredIds

\* a key of the local form 'element_...', not an id the server assigned
IsLocalId(k) == k >= ClientId

\* the client of socket s has handled the element-created of a
\* create-element of its own
EchoHandled(hd, s) ==
    \E j \in 1..hd[s] :
        inbox[s][j].type = "element-created" /\ inbox[s][j].sid = s

\* C27: the client reconciles its local copy with the id of the server.
\* Taken for the first element of a behaviour (one create-element so far,
\* sent by the client of socket s): in the step in which that client
\* handles the element-created for it, its element map gets the entry of
\* the server id and keeps no entry under a local id; from then on the
\* update-element and delete-element events it sends name the id the
\* server assigned.
C27_ClientKeysAreServerIds ==
    [][\A s \in Sockets :
         nextId = 1 =>
            /\ (~EchoHandled(handled, s) /\ EchoHandled(handled', s))
               => /\ inbox[s][handled'[s]].elem \in DOMAIN elementsMap'[s]
                  /\ \A k \in DOMAIN elementsMap'[s] : ~IsLocalId(k)
            /\ \A t \in BagToSet(tasks') :
                 ( /\ CopiesIn(t, tasks') > CopiesIn(t, tasks)
                   /\ t.sock = s /\ t.kind \in {"update", "delete"}
                   /\ EchoHandled(handled, s) )
                 => t.elem \in 1..nextId
      ]_vars

\* request r has its response and none of its statements is left to run
Quiet(r) ==
    /\ requests[r].status # 0
    /\ \A st \in BagToSet(statements) : st.req # r

HasBoard(T, id) == \E row \in T.boards : row.id = id

HasOwner(T, id, userId) ==
    [board_id |-> id, user_id |-> userId, role |-> "owner"] \in T.board_members

\* C28: db.createBoard is all-or-nothing: once the call has settled and
\* the statements it issued have run, the boards row of the new id is
\* there exactly if the owner's board_members row is, and when the promise
\* resolved both rows are committed.
C28_CreateBoardAllOrNothing ==
    \A r \in Requests :
        (requests[r].kind = "createBoard" /\ Quiet(r))
        => LET id == requests[r].boardId
               u == requests[r].userId
           IN /\ HasBoard(Tables, id) <=> HasOwner(Tables, id, u)
              /\ requests[r].status = 200 =>
                    HasBoard(Committed, id) /\ HasOwner(Committed, id, u)

\* the rows of board b the database file held at start-up
InitialRows(b) ==
    [boards |-> {row \in InitialBoards : row.id = b},
     board_members |-> {row \in InitialMembers : row.board_id = b}]

C30_DeleteBoardAllOrNothing ==
    [][\A r \in Requests :
         LET q == requests[r]
             n == requests'[r]
             b == n.boardId
         IN n.kind = "deleteBoard" =>
              /\ (q.pc = "member" /\ n.pc = "tx")
                 => \E m \in getBoardMember(Tables, b, n.userId) : m.role = "owner"
              /\ (q.status = 0 /\ n.status = 403) => Tables' = Tables
              /\ (Pending(r, "COMMIT")' /\ ~Pending(r, "COMMIT")) => q.status = 0
              /\ ( /\ Quiet(r)'
                   /\ \A o \in Requests \ {r} : requests'[o].kind # "deleteBoard" )
                 => /\ n.status = 200 =>
                         \A T \in {Tables', Committed'} :
                            /\ getBoard(T, b) = {}
                            /\ {m \in T.board_members : m.board_id = b} = {}
                            /\ {e \in T.elements : e.board_id = b} = {}
                            /\ {c \in T.connectors : c.board_id = b} = {}
                    /\ n.status = 500 =>
                         /\ InitialRows(b).boards \subseteq boards'
                         /\ InitialRows(b).board_members \subseteq board_members'
                         /\ {e \in elements : e.board_id = b} \subseteq elements'
      ]_vars

\* C31: every presence entry carries the identity decoded from the token
\* of its connection, and every join-board waiting on or past the
\* membership check asks for that identity, whatever user object the
\* payload carried.
C31_PresenceIsTokenIdentity ==
    /\ \A b \in DOMAIN boardUsers : \A s \in DOMAIN boardUsers[b] :
          boardUsers[b][s].userId = handshake[s].user
    /\ \A t \in BagToSet(tasks) :
          t.kind = "join" => t.user = handshake[t.sock].user

\* what a view keeps of an element: style is left out, no client of this
\* model sets it
Seen(e) ==
    [id |-> e.id, type |-> e.type, content |-> e.content,
     position |-> e.position]

\* the view after one more message of board b: loaded and created elements
\* are added unless already present, an update replaces, a delete removes
Applied(view, msg, b) ==
    IF msg.board # b THEN view
    ELSE IF msg.type \in {"load-elements", "element-created"}
    THEN [k \in DOMAIN view \cup {e.id : e \in msg.els} |->
            IF k \in DOMAIN view THEN view[k]
            ELSE Seen(CHOOSE e \in msg.els : e.id = k)]
    ELSE IF msg.type = "element-updated"
    THEN [k \in DOMAIN view |->
            IF \E e \in msg.els : e.id = k
            THEN Seen(CHOOSE e \in msg.els : e.id = k) ELSE view[k]]
    ELSE IF msg.type = "element-deleted"
    THEN [k \in DOMAIN view \ {msg.elem} |-> view[k]]
    ELSE view

\* the messages q[i..] applied in delivery order
RECURSIVE ViewFrom(_, _, _, _)
ViewFrom(q, i, b, view) ==
    IF i > Len(q) THEN view
    ELSE ViewFrom(q, i + 1, b, Applied(view, q[i], b))

\* positions of the current-users snapshots socket s got for board b
JoinsOf(s, b) ==
    {i \in 1..Len(inbox[s]) :
        inbox[s][i].type = "current-users" /\ inbox[s][i].board = b}

\* the view of board b that socket s has built since it joined
ViewOf(s, b) ==
    LET from == CHOOSE i \in JoinsOf(s, b) : \A j \in JoinsOf(s, b) : i <= j
    IN ViewFrom(inbox[s], from, b, EmptyMap)

\* the stored elements of board b, as a view
StoredView(b) ==
    LET rows == getBoardElements(elements, b)
    IN [k \in {e.id : e \in rows} |-> Seen(CHOOSE e \in rows : e.id = k)]

\* C32: once no handler is waiting on the database, the view that every
\* connected socket with presence in a board has built from the
\* load-elements, element-created, element-updated and element-deleted
\* messages it got since joining equals the stored elements of the board.
C32_ViewsConverge ==
    tasks = EmptyBag =>
        \A b \in Boards : \A s \in Present(boardUsers, b) :
            (status[s] = "connected" /\ JoinsOf(s, b) # {})
            => ViewOf(s, b) = StoredView(b)

\* the socket ids a client holds after one more message of board b
Noted(ids, msg, b) ==
    IF msg.board # b THEN ids
    ELSE IF msg.type = "current-users" THEN DOMAIN msg.users
    ELSE IF msg.type = "user-joined" THEN ids \cup DOMAIN msg.users
    ELSE IF msg.type = "user-left" THEN ids \ {msg.sid}
    ELSE ids

\* the messages q[i..] noted in delivery order
RECURSIVE NotedFrom(_, _, _, _)
NotedFrom(q, i, b, ids) ==
    IF i > Len(q) THEN ids
    ELSE NotedFrom(q, i + 1, b, Noted(ids, q[i], b))

\* the sockets that socket c believes to be on board b
UsersSeen(c, b) == NotedFrom(inbox[c], 1, b, {})

\* the sockets of which c's picture of board b matches boardUsers[b]
AgreesOnUsers(c, b) == UsersSeen(c, b) = Present(boardUsers, b)

\* C33: once no handler is waiting on the database, what every connected
\* socket with presence in board b has put together from its
\* current-users snapshot and the user-joined and user-left notices after
\* it is the key set of boardUsers[b], and all those sockets are connected.
C33_PresenceViewsConverge ==
    tasks = EmptyBag =>
        \A b \in Boards : \A c \in Present(boardUsers, b) :
            status[c] = "connected"
            => /\ AgreesOnUsers(c, b)
               /\ \A s \in UsersSeen(c, b) : status[s] = "connected"

\* ids of the elements of board b that socket c was handed, in a
\* load-elements snapshot or as element-created
Handed(c, b) ==
    UNION {{e.id : e \in inbox[c][i].els} :
             i \in {j \in 1..Len(inbox[c]) :
                       /\ inbox[c][j].board = b
                       /\ inbox[c][j].type \in {"load-elements", "element-created"}}}

\* socket c has a join-board for board b waiting on the database
Joining(c, b) ==
    \E t \in BagToSet(tasks) : t.kind = "join" /\ t.sock = c /\ t.boardId = b

\* socket c got a load-elements snapshot of board b
Loaded(c, b) ==
    \E i \in 1..Len(inbox[c]) :
        inbox[c][i].type = "load-elements" /\ inbox[c][i].board = b

\* C34: a connected socket with presence in board b whose join-board
\* handlers have all finished has missed no stored element of b, whenever
\* it was persisted (before, during or after the join): the element was in
\* a load-elements snapshot the socket got or was delivered to it as
\* element-created.
C34_JoinMissesNoElement ==
    \A b \in Boards : \A c \in Present(boardUsers, b) :
        (status[c] = "connected" /\ ~Joining(c, b))
        => \A e \in elements : e.board_id = b => e.id \in Handed(c, b)

\* C35: in the step in which the database call of an update-element or
\* delete-element settles, every row that is changed or removed belongs to
\* the board the event names, and when the room of that board is sent
\* element-updated or element-deleted, no other board holds the element.
C35_MutationStaysOnItsBoard ==
    [][\A t \in BagToSet(tasks) :
         (PersistSettles(t) /\ t.kind \in {"update", "delete"})
         => /\ \A e \in elements \ elements' : e.board_id = t.boardId
            /\ (\E o \in Receivers :
                   Last(inbox', o).type \in {"element-updated", "element-deleted"})
               => \A e \in elements : e.id = t.elem => e.board_id = t.boardId
      ]_vars

\* C36: when the database call of an update-element settles and a socket
\* is sent element-updated for it, the store held a row of the id the
\* update names.
C36_UpdateOfStoredElementOnly ==
    [][\A t \in BagToSet(tasks) :
         ( /\ PersistSettles(t) /\ t.kind = "update"
           /\ \E o \in Receivers : Last(inbox', o).type = "element-updated" )
         => \E e \in elements : e.id = t.elem
      ]_vars

\* the messages that are emitted for a board
StreamTypes ==
    {"element-created", "element-updated", "element-deleted",
     "cursor-update", "text-update", "user-joined"}

\* positions of the messages socket o gets in this step
Arriving(o) == (Len(inbox[o]) + 1)..Len(inbox'[o])

\* C37: whenever a socket is handed element-created, element-updated,
\* element-deleted, cursor-update, text-update or user-joined of a board,
\* it has a presence entry in that board at that moment.
C37_StreamsReachPresenceOnly ==
    [][\A o \in Sockets : \A i \in Arriving(o) :
         inbox'[o][i].type \in StreamTypes
         => o \in Present(boardUsers, inbox'[o][i].board)
      ]_vars

\* a socket with presence in a board holds a text-update that a connected
\* socket without presence there sent for the board, and the sender holds
\* no message of any board
C37_Witness ==
    \E o, s \in Sockets, b \in Boards :
        /\ o # s /\ o \in Present(boardUsers, b)
        /\ status[s] = "connected" /\ s \notin Present(boardUsers, b)
        /\ \E i \in 1..Len(inbox[o]) :
              /\ inbox[o][i].type = "text-update"
              /\ inbox[o][i].board = b /\ inbox[o][i].sid = s
        /\ \A i \in 1..Len(inbox[s]) : inbox[s][i].type \notin StreamTypes

\* the step hands one message of the given type, caused by s, to every
\* other connected socket in room b and nothing to anyone else, and leaves
\* presence, store and waiting handlers alone
Ephemeral(s, b, type) ==
    /\ inbox'[s] = inbox[s]
    /\ \A o \in Sockets \ {s} :
          IF status[o] = "connected" /\ b \in rooms[o]
          THEN /\ GetsOne(o)
               /\ Last(inbox', o).type = type
               /\ Last(inbox', o).board = b
               /\ Last(inbox', o).sid = s
          ELSE inbox'[o] = inbox[o]
    /\ boardUsers' = boardUsers /\ elements' = elements
    /\ tasks' = tasks /\ rooms' = rooms /\ board_members' = board_members

\* C39: a well-formed text-change hands one text-update with its element
\* id and text, and a well-formed mouse-move one user-mouse-move with its
\* position, to every other connection in the room it names and nothing
\* to the sender; neither changes boardUsers or the stored elements.
C39_StreamsAreEphemeral ==
    [][/\ \A s \in Sockets, b \in Boards, text \in Texts \ {Missing} :
            TextChange(s, b, ClientId, text)
            => /\ Ephemeral(s, b, "text-update")
               /\ \A o \in Receivers :
                     /\ Last(inbox', o).elem = ClientId
                     /\ Last(inbox', o).message = text
       /\ \A s \in Sockets, b \in Boards, p \in Positions :
            MouseMove(s, b, p)
            => /\ Ephemeral(s, b, "user-mouse-move")
               /\ \A o \in Receivers : Last(inbox', o).position = p
      ]_vars

\* two sockets share a room: one holds a text-update or user-mouse-move
\* of the other, who holds neither
C39_Witness ==
    \E s, o \in Sockets, b \in Boards :
        /\ s # o /\ b \in rooms[s] /\ b \in rooms[o]
        /\ \E i \in 1..Len(inbox[o]) :
              /\ inbox[o][i].type \in {"text-update", "user-mouse-move"}
              /\ inbox[o][i].board = b /\ inbox[o][i].sid = s
        /\ \A i \in 1..Len(inbox[s]) :
              inbox[s][i].type \notin {"text-update", "user-mouse-move"}

\* C38: as long as no database call of the delete route has failed, every
\* presence entry of a board carries a user who has a row of that board in
\* board_members, on the connection or in what is committed: when a board
\* has been deleted, nobody has presence in it any more.
C38_PresenceImpliesMembership ==
    (\A r \in Requests : requests[r].status \in {0, 200})
    => \A b \in DOMAIN boardUsers : \A s \in DOMAIN boardUsers[b] :
          \/ checkBoardAccess(board_members, b, boardUsers[b][s].userId)
          \/ checkBoardAccess(Committed.board_members, b,
                              boardUsers[b][s].userId)

====
